---- MODULE Spec2Model ----
(***************************************************************************)
(* Adaptive test assembly and sandboxed grading engine of the leave        *)
(* management backend: the question selector (utils/smartQuestionSelector),*)
(* the grader and code runner (controllers/testController) and the         *)
(* question pool administration (controllers/questionController).          *)
(***************************************************************************)
EXTENDS Integers, Sequences, FiniteSets, TLC

(***************************************************************************)
(* Bounds of the model                                                     *)
(***************************************************************************)
MaxTotal == 10
MaxSelTotal == 2
MaxGenerated == 2
MaxAnswers == 2
MaxShuffle == 4

(***************************************************************************)
(* Shared vocabulary                                                       *)
(***************************************************************************)
Difficulties == <<"easy", "medium", "hard">>
QuestionTypes == <<"MCQ", "Coding", "TrueFalse">>

\* Percentages the inputs are drawn from.
Pcts == {0, 10, 20, 30, 50, 70, 100}

DifficultyDists ==
    {d \in [easy : Pcts, medium : Pcts, hard : Pcts] :
        d.easy + d.medium + d.hard \in {0, 100}}

TypeDists ==
    {t \in [MCQ : Pcts, Coding : Pcts, TrueFalse : Pcts] :
        t.MCQ + t.Coding + t.TrueFalse \in {0, 100}}

RECURSIVE SumCounts(_)
SumCounts(cells) ==
    IF cells = <<>> THEN 0 ELSE Head(cells).count + SumCounts(Tail(cells))

(***************************************************************************)
(* calculateQuestionBreakdown                                              *)
(***************************************************************************)
\* The rounding with at least one question for every share.
RoundPctAtLeastOne(n, pct) ==
    IF (2 * n * pct + 100) \div 200 < 1 THEN 1 ELSE (2 * n * pct + 100) \div 200

\* Math.round(n * (pct / 100)): round half up.  For 0 <= n <= 20 and
\* 0 <= pct <= 100 the double-precision product rounds to the same integer
\* as the exact quotient.
RoundPct(n, pct) == (2 * n * pct + 100) \div 200

\* The body of the loop over difficulties, for one { difficulty, count }.
TypeCells(difficulty, count, typeDist) ==
    IF count <= 0 THEN <<>>
    ELSE LET mcqCount == RoundPct(count, typeDist.MCQ)
             codingCount == RoundPct(count, typeDist.Coding)
             tfCount == count - mcqCount - codingCount
         IN  (IF mcqCount > 0
                THEN <<[difficulty |-> difficulty, type |-> "MCQ", count |-> mcqCount]>>
                ELSE <<>>)
             \o (IF codingCount > 0
                   THEN <<[difficulty |-> difficulty, type |-> "Coding", count |-> codingCount]>>
                   ELSE <<>>)
             \o (IF tfCount > 0
                   THEN <<[difficulty |-> difficulty, type |-> "TrueFalse", count |-> tfCount]>>
                   ELSE <<>>)

calculateQuestionBreakdown(total, difficultyDist, typeDist) ==
    LET easyCount == RoundPct(total, difficultyDist.easy)
        mediumCount == RoundPct(total, difficultyDist.medium)
        hardCount == total - easyCount - mediumCount
    IN  TypeCells("easy", easyCount, typeDist)
        \o TypeCells("medium", mediumCount, typeDist)
        \o TypeCells("hard", hardCount, typeDist)

(***************************************************************************)
(* Identifiers, documents and collections                                  *)
(***************************************************************************)
\* A MongoDB ObjectId, and the string q._id.toString() makes of it.  The
\* two are values of different BSON types: an aggregation pipeline is not
\* cast to the schema, so its $nin / $in compare them as they are.
ObjectId(n) == [kind |-> "ObjectId", hex |-> n]
IdToString(oid) == [kind |-> "String", hex |-> oid.hex]

Range(seq) == {seq[i] : i \in 1..Len(seq)}

Min(a, b) == IF a < b THEN a ELSE b

\* The documents of a set, as an array ordered by _id.
RECURSIVE DocsById(_)
DocsById(docs) ==
    IF docs = {} THEN <<>>
    ELSE LET first == CHOOSE d \in docs : \A e \in docs : d._id.hex <= e._id.hex
         IN  <<first>> \o DocsById(docs \ {first})

\* One test case of a Coding question: solution(input) must give output.
TestCase(in, out) == [input |-> in, output |-> out]

\* A Question document.
Question(n, difficulty, type, category, correct, cases) ==
    [_id |-> ObjectId(n), difficulty |-> difficulty, questionType |-> type,
     category |-> category, isActive |-> TRUE, correctAnswer |-> correct,
     testCases |-> cases]

\* values: numbers and strings, told apart as JavaScript does
Num(n) == [t |-> "number", v |-> n]
Str(s) == [t |-> "string", v |-> s]

\* The question bank the stores and tests are taken from.
Bank ==
    {Question(1, "easy", "MCQ", "React", Str("A"), <<>>),
     Question(2, "easy", "MCQ", "Python", Str("B"), <<>>),
     Question(3, "medium", "MCQ", "React", Str("A"), <<>>),
     Question(4, "medium", "TrueFalse", "Python", Str("True"), <<>>),
     Question(5, "hard", "Coding", "DSA", Str(""),
              <<TestCase(Num(1), Num(1)), TestCase(Num(2), Num(1)),
                TestCase(Num(1), Num(1))>>)}

BankQuestion(n) == CHOOSE q \in Bank : q._id = ObjectId(n)

\* The one learner of the model.
Student == ObjectId(100)

\* A StudentQuestionHistory document as the schema defaults create it.
NewHistory(student) ==
    [student |-> student, seenQuestions |-> <<>>,
     totalQuestionsAttempted |-> 0, correctAnswers |-> 0,
     categoryPerformance |-> <<>>, difficultyPerformance |-> <<>>]

\* One entry of seenQuestions.
SeenEntry(question, test, seenAt, correct) ==
    [question |-> question, test |-> test, seenAt |-> seenAt,
     answeredCorrectly |-> correct]

\* StudentQuestionHistory.findOne({ student }): the first matching document,
\* as a list of zero or one documents.
FindHistory(coll, student) ==
    LET hits == {i \in 1..Len(coll) : coll[i].student = student}
    IN  IF hits = {} THEN <<>>
        ELSE <<CHOOSE i \in hits : \A j \in hits : i <= j>>

\* A QuestionPool document.
Pool(n, questions, isDefault, isActive) ==
    [_id |-> ObjectId(n), questions |-> questions, isDefault |-> isDefault,
     isActive |-> isActive]

(***************************************************************************)
(* State                                                                   *)
(***************************************************************************)
VARIABLES
    \* calculateQuestionBreakdown, called on its own
    bkPc,          \* "input" or "done"
    bkTotal,       \* its argument total
    bkDifficulty,  \* its argument difficultyDist
    bkTypes,       \* its argument typeDist
    bkResult,      \* the breakdown returned
    \* the database and the clock
    store,         \* Question collection: a set of Question documents
    nextId,        \* number of the next ObjectId the database assigns
    histories,     \* StudentQuestionHistory collection, in insertion order
    pools,         \* QuestionPool collection, in insertion order
    today,         \* the current date, in days
    \* one call of selectQuestionsForTest(Student, selConfig)
    selPc,         \* where the call is
    selConfig,     \* its argument config, defaults filled in
    selHistory,    \* history, as a list of zero or one documents
    selExclude,    \* recentlySeenIds / excludeIds, an array of id strings
    selPool,       \* pool, as a list of zero or one documents
    selBreakdown,  \* questionBreakdown
    selCell,       \* index of the breakdown cell the running loop is at
    selSelected,   \* selectedQuestions
    selGenerated,  \* generated, inside generateAdditionalQuestions
    selGenCalls,   \* the requests made to aiQuestionGenerator.generateQuestions
    selResult,     \* the array returned
    \* grading
    testDoc,       \* the Test document the submissions are for
    submissions,   \* Submission collection, in insertion order
    leaveStatus,   \* status of the LeaveRequest of the test
    notifications, \* number of Notification documents created
    reqs,          \* the submitTest requests: their position and locals
    \* one runCode request
    rcPc,          \* "start", "done" or "idle"
    rcBody,        \* req.body
    rcRuns,        \* the sandbox executions it made
    rcOutput,      \* the lines of output it answers with
    \* question pool administration
    adm,           \* the createQuestionPool / updateQuestionPool requests
    \* one call of getAdaptiveDifficulty or getWeakCategories
    adv            \* its position and what it returned

bkVars == <<bkPc, bkTotal, bkDifficulty, bkTypes, bkResult>>
dbVars == <<store, nextId, histories, pools, today>>
selVars == <<selPc, selConfig, selHistory, selExclude, selPool, selBreakdown,
             selCell, selSelected, selGenerated, selGenCalls, selResult>>

gradeVars == <<testDoc, submissions, leaveStatus, notifications, reqs>>
runVars == <<rcPc, rcBody, rcRuns, rcOutput>>
admVars == <<adm>>
advVars == <<adv>>

vars == <<bkVars, dbVars, selVars, gradeVars, runVars, admVars, advVars>>

\* The parts of the state a specification does not use stay as they are here.
BkIdle ==
    /\ bkPc = "idle"
    /\ bkTotal = 0
    /\ bkDifficulty = [easy |-> 0, medium |-> 0, hard |-> 0]
    /\ bkTypes = [MCQ |-> 0, Coding |-> 0, TrueFalse |-> 0]
    /\ bkResult = <<>>

DbEmpty ==
    /\ store = {}
    /\ nextId = 1
    /\ histories = <<>>
    /\ pools = <<>>
    /\ today = 0

SelIdle ==
    /\ selPc = "idle"
    /\ selConfig = <<>>
    /\ selHistory = <<>>
    /\ selExclude = <<>>
    /\ selPool = <<>>
    /\ selBreakdown = <<>>
    /\ selCell = 0
    /\ selSelected = <<>>
    /\ selGenerated = <<>>
    /\ selGenCalls = <<>>
    /\ selResult = <<>>

\* The requests of the model.
Requests == {1, 2}
AdminRequests == {1, 2}

\* A request that is not made.
NoRequest ==
    [pc |-> "off", testId |-> ObjectId(0), answers |-> <<>>, test |-> <<>>,
     questions |-> <<>>, score |-> 0, awarded |-> <<>>, runs |-> <<>>,
     totalQuestions |-> 0, isPassed |-> FALSE, history |-> <<>>,
     historyAt |-> 0, historyError |-> FALSE, response |-> <<>>]

NoTest ==
    [_id |-> ObjectId(0), questions |-> <<>>, passingPercentage |-> 60,
     score |-> 0, status |-> "Assigned"]

NoAdminRequest ==
    [pc |-> "off", kind |-> "create", id |-> 0, name |-> FALSE,
     isDefault |-> <<>>, status |-> 0]

GradeIdle ==
    /\ testDoc = NoTest
    /\ submissions = <<>>
    /\ leaveStatus = "Test Assigned"
    /\ notifications = 0
    /\ reqs = [p \in Requests |-> NoRequest]

RunIdle ==
    /\ rcPc = "idle"
    /\ rcBody = <<>>
    /\ rcRuns = <<>>
    /\ rcOutput = <<>>

AdmIdle == adm = [a \in AdminRequests |-> NoAdminRequest]

\* A call that is not made.
NoAdvice ==
    [pc |-> "off", op |-> "none",
     difficulty |-> [easy |-> 0, medium |-> 0, hard |-> 0], weak |-> {}]

AdvIdle == adv = NoAdvice

(***************************************************************************)
(* Specification of the breakdown computation                              *)
(***************************************************************************)
BreakdownInit ==
    /\ AdvIdle
    /\ bkPc = "input"
    /\ bkTotal \in 0..MaxTotal
    /\ bkDifficulty \in DifficultyDists
    /\ bkTypes \in TypeDists
    /\ bkResult = <<>>
    /\ DbEmpty
    /\ SelIdle
    /\ GradeIdle
    /\ RunIdle
    /\ AdmIdle

ComputeBreakdown ==
    /\ bkPc = "input"
    /\ bkResult' = calculateQuestionBreakdown(bkTotal, bkDifficulty, bkTypes)
    /\ bkPc' = "done"
    /\ UNCHANGED <<advVars, bkTotal, bkDifficulty, bkTypes, dbVars, selVars, gradeVars,
                   runVars, admVars>>

BreakdownNext == ComputeBreakdown

BreakdownSpec == BreakdownInit /\ [][BreakdownNext]_vars

\* A valid configuration: positive total, both axes summing to 100.
ValidBreakdownInput ==
    /\ bkTotal > 0
    /\ bkDifficulty.easy + bkDifficulty.medium + bkDifficulty.hard = 100
    /\ bkTypes.MCQ + bkTypes.Coding + bkTypes.TrueFalse = 100

\* C1: for every valid (total, difficultyDist, typeDist) the counts of the
\* cells returned by calculateQuestionBreakdown sum to exactly total.
C1_BreakdownSumsToTotal ==
    (bkPc = "done" /\ ValidBreakdownInput) => SumCounts(bkResult) = bkTotal

(***************************************************************************)
(* selectQuestionsForTest and the operations it calls                      *)
(***************************************************************************)
\* getRecentlySeenQuestionIds(history, days), called on the day now.
getRecentlySeenQuestionIds(history, days, now) ==
    LET cutoffDate == now - days
        recent == SelectSeq(history.seenQuestions,
                            LAMBDA sq : sq.seenAt > cutoffDate)
    IN  [i \in 1..Len(recent) |-> IdToString(recent[i].question)]

\* The $match stage without the difficulty of the cell.
MatchesQueryAnyDifficulty(q, req, excludeIds, categories, pool) ==
    /\ q.questionType = req.type
    /\ q.isActive
    /\ q._id \notin Range(excludeIds)
    /\ (Len(categories) > 0 => q.category \in Range(categories))
    /\ ((Len(pool) > 0 /\ pool[1].questions # {})
            => q._id \in pool[1].questions)

\* The $match stage without the $in of the pool's questions.
MatchesQueryNoPool(q, req, excludeIds, categories, pool) ==
    /\ q.difficulty = req.difficulty
    /\ q.questionType = req.type
    /\ q.isActive
    /\ q._id \notin Range(excludeIds)
    /\ (Len(categories) > 0 => q.category \in Range(categories))

\* The $match stage of selectQuestions for the breakdown cell req.
MatchesQuery(q, req, excludeIds, categories, pool) ==
    /\ q.difficulty = req.difficulty
    /\ q.questionType = req.type
    /\ q.isActive
    /\ q._id \notin Range(excludeIds)
    /\ (Len(categories) > 0 => q.category \in Range(categories))
    /\ ((Len(pool) > 0 /\ pool[1].questions # {})
            => q._id \in pool[1].questions)

\* The results $sample may give: size documents of the matching ones, or
\* all of them when there are fewer.
SampleChoices(matching, size) ==
    {S \in SUBSET matching : Cardinality(S) = Min(size, Cardinality(matching))}

\* QuestionPool.findById(poolId).
FindPoolById(coll, poolId) ==
    LET hits == {i \in 1..Len(coll) : coll[i]._id = ObjectId(poolId)}
    IN  IF hits = {} THEN <<>> ELSE <<coll[CHOOSE i \in hits : TRUE]>>

\* QuestionPool.findOne({ isDefault: true, isActive: true }).
FindDefaultPool(coll) ==
    LET hits == {i \in 1..Len(coll) : coll[i].isDefault /\ coll[i].isActive}
    IN  IF hits = {} THEN <<>>
        ELSE <<coll[CHOOSE i \in hits : \A j \in hits : i <= j]>>

\* The count of a cell when existingByType is never filled.
HaveOfCellNone(existing, req) == 0

\* existingByType[key] || 0 in generateAdditionalQuestions.
HaveOfCell(existing, req) ==
    Cardinality({i \in 1..Len(existing) :
                    /\ existing[i].difficulty = req.difficulty
                    /\ existing[i].questionType = req.type})

\* What aiQuestionGenerator.generateQuestions may answer: any number of
\* drafts up to MaxGenerated, all tagged as requested (parseAIResponse) or
\* all taken from the templates, which carry their own tags.
Draft(difficulty, type, category) ==
    [difficulty |-> difficulty, questionType |-> type, category |-> category]

GeneratorAnswers(category, difficulty, type) ==
    {[i \in 1..n |-> d] :
        n \in 0..MaxGenerated,
        d \in {Draft(difficulty, type, category),
               Draft("easy", "MCQ", "JavaScript")}}

\* saveGeneratedQuestions: every draft becomes a Question document with a
\* new _id, numbered from first.
SavedQuestions(drafts, first) ==
    [i \in 1..Len(drafts) |->
        Question(first + i - 1, drafts[i].difficulty, drafts[i].questionType,
                 drafts[i].category, Str("A"), <<>>)]

\* The exchange that writes arr[j] to place i and leaves place j as it is.
SwapOverwrite(arr, i, j) ==
    [k \in 1..Len(arr) |-> IF k = i + 1 THEN arr[j + 1] ELSE arr[k]]

\* shuffleArray(array), with j = rnd[i] the value Math.floor(Math.random() *
\* (i + 1)) of the iteration i (indices counted from 0 as in the code).
Swap(arr, i, j) ==
    [k \in 1..Len(arr) |->
        IF k = i + 1 THEN arr[j + 1] ELSE IF k = j + 1 THEN arr[i + 1] ELSE arr[k]]

RECURSIVE ShuffleFrom(_, _, _)
ShuffleFrom(shuffled, i, rnd) ==
    IF i <= 0 THEN shuffled
    ELSE ShuffleFrom(Swap(shuffled, i, rnd[i]), i - 1, rnd)

shuffleArray(array, rnd) == ShuffleFrom(array, Len(array) - 1, rnd)

RandomDraws(n) ==
    {rnd \in [1..(n - 1) -> 0..(n - 1)] : \A i \in 1..(n - 1) : rnd[i] <= i}

(***************************************************************************)
(* Specification of one selectQuestionsForTest call                        *)
(***************************************************************************)
\* The histories a call may find: the learner saw questions 1 and 2 of the
\* bank, each not at all, SeenRecently days ago or SeenLongAgo days ago, in an
\* earlier test whose answers were wrong.
SeenRecently == 10
SeenLongAgo == 40
EarlierTest == ObjectId(200)

SeenHistory(f, now) ==
    LET qs == SelectSeq(<<1, 2>>, LAMBDA n : f[n] # "none")
        cats == {BankQuestion(qs[i]).category : i \in 1..Len(qs)}
        diffs == {BankQuestion(qs[i]).difficulty : i \in 1..Len(qs)}
    IN  [student |-> Student,
         seenQuestions |->
            [i \in 1..Len(qs) |->
                SeenEntry(ObjectId(qs[i]), EarlierTest,
                          now - (IF f[qs[i]] = "recent" THEN SeenRecently
                                                        ELSE SeenLongAgo),
                          FALSE)],
         totalQuestionsAttempted |-> Len(qs),
         correctAnswers |-> 0,
         categoryPerformance |->
            [c \in cats |->
                [attempted |-> Cardinality({i \in 1..Len(qs) :
                                  BankQuestion(qs[i]).category = c}),
                 correct |-> 0]],
         difficultyPerformance |->
            [d \in diffs |->
                [attempted |-> Cardinality({i \in 1..Len(qs) :
                                  BankQuestion(qs[i]).difficulty = d}),
                 correct |-> 0]]]

SelHistoryChoices(now) ==
    {<<>>} \cup {<<SeenHistory(f, now)>> :
                    f \in [{1, 2} -> {"none", "recent", "old"}]}

SelStoreChoices ==
    {{}, {BankQuestion(1)}, {BankQuestion(1), BankQuestion(2)},
     {BankQuestion(1), BankQuestion(2), BankQuestion(3)}, Bank}

SelPoolChoices ==
    {<<>>,
     <<Pool(1, {ObjectId(1), ObjectId(3)}, TRUE, TRUE)>>,
     <<Pool(1, {ObjectId(2)}, FALSE, TRUE)>>}

SelConfigs ==
    [poolId : {0, 1},
     totalQuestions : 0..MaxSelTotal,
     difficultyDistribution :
        {[easy |-> 30, medium |-> 50, hard |-> 20],
         [easy |-> 50, medium |-> 50, hard |-> 0],
         [easy |-> 100, medium |-> 0, hard |-> 0]},
     categories : {<<>>, <<"React">>},
     questionTypes :
        {[MCQ |-> 70, Coding |-> 20, TrueFalse |-> 10],
         [MCQ |-> 100, Coding |-> 0, TrueFalse |-> 0]},
     avoidRecentQuestions : BOOLEAN,
     recentQuestionDays : {7, 30},
     generateIfNeeded : BOOLEAN]

SelectInit ==
    /\ AdvIdle
    /\ BkIdle
    /\ GradeIdle
    /\ RunIdle
    /\ AdmIdle
    /\ today = 100
    /\ store \in SelStoreChoices
    /\ nextId = 11
    /\ histories \in SelHistoryChoices(today)
    /\ pools \in SelPoolChoices
    /\ selPc = "start"
    /\ selConfig \in SelConfigs
    /\ (selConfig.poolId # 0 => pools # <<>>)
    /\ selHistory = <<>>
    /\ selExclude = <<>>
    /\ selPool = <<>>
    /\ selBreakdown = <<>>
    /\ selCell = 0
    /\ selSelected = <<>>
    /\ selGenerated = <<>>
    /\ selGenCalls = <<>>
    /\ selResult = <<>>

\* recentlySeenIds, once getStudentHistory has returned history.
RecentlySeenIds(history) ==
    IF selConfig.avoidRecentQuestions
      THEN getRecentlySeenQuestionIds(history, selConfig.recentQuestionDays, today)
      ELSE <<>>

\* getStudentHistory: findOne finds the learner's record.
SelLoadHistory ==
    /\ selPc = "start"
    /\ FindHistory(histories, Student) # <<>>
    /\ LET history == histories[FindHistory(histories, Student)[1]]
       IN  /\ selHistory' = <<history>>
           /\ selExclude' = RecentlySeenIds(history)
    /\ selPc' = "pool"
    /\ UNCHANGED <<advVars, bkVars, gradeVars, runVars, admVars, dbVars, selConfig, selPool, selBreakdown, selCell,
                   selSelected, selGenerated, selGenCalls, selResult>>

\* getStudentHistory: findOne finds nothing, a new record is saved.
SelCreateHistory ==
    /\ selPc = "start"
    /\ FindHistory(histories, Student) = <<>>
    /\ histories' = Append(histories, NewHistory(Student))
    /\ selHistory' = <<NewHistory(Student)>>
    /\ selExclude' = RecentlySeenIds(NewHistory(Student))
    /\ selPc' = "pool"
    /\ UNCHANGED <<advVars, bkVars, gradeVars, runVars, admVars, store, nextId, pools, today, selConfig, selPool,
                   selBreakdown, selCell, selSelected, selGenerated,
                   selGenCalls, selResult>>

\* The pool is looked up and the breakdown computed.
SelFindPool ==
    /\ selPc = "pool"
    /\ selPool' = IF selConfig.poolId # 0
                    THEN FindPoolById(pools, selConfig.poolId)
                    ELSE FindDefaultPool(pools)
    /\ selBreakdown' = calculateQuestionBreakdown(selConfig.totalQuestions,
                          selConfig.difficultyDistribution,
                          selConfig.questionTypes)
    /\ selCell' = 1
    /\ selPc' = "select"
    /\ UNCHANGED <<advVars, bkVars, gradeVars, runVars, admVars, dbVars, selConfig, selHistory, selExclude,
                   selSelected, selGenerated, selGenCalls, selResult>>

\* selectQuestions: one iteration of the loop over the breakdown.
SelSelectCell ==
    /\ selPc = "select"
    /\ selCell <= Len(selBreakdown)
    /\ LET req == selBreakdown[selCell]
           matching == {q \in store :
                           MatchesQuery(q, req, selExclude,
                                        selConfig.categories, selPool)}
       IN  \E sample \in SampleChoices(matching, req.count) :
              LET questions == DocsById(sample)
              IN  /\ selSelected' = selSelected \o questions
                  /\ selExclude' = selExclude \o
                        [i \in 1..Len(questions) |-> IdToString(questions[i]._id)]
    /\ selCell' = selCell + 1
    /\ UNCHANGED <<advVars, bkVars, gradeVars, runVars, admVars, dbVars, selPc, selConfig, selHistory, selPool,
                   selBreakdown, selGenerated, selGenCalls, selResult>>

\* The step after selectQuestions without the test of generateIfNeeded: a
\* short selection always goes to the generator.
SelSelectedAlwaysGenerates ==
    /\ selPc = "select"
    /\ selCell > Len(selBreakdown)
    /\ IF Len(selSelected) < selConfig.totalQuestions
         THEN selPc' = "generate"
         ELSE selPc' = "shuffle"
    /\ selCell' = 1
    /\ UNCHANGED <<advVars, bkVars, gradeVars, runVars, admVars, dbVars, selConfig,
                   selHistory, selExclude, selPool, selBreakdown, selSelected,
                   selGenerated, selGenCalls, selResult>>

\* selectQuestions has returned: generate when short and allowed to.
SelSelected ==
    /\ selPc = "select"
    /\ selCell > Len(selBreakdown)
    /\ IF Len(selSelected) < selConfig.totalQuestions /\ selConfig.generateIfNeeded
         THEN selPc' = "generate"
         ELSE selPc' = "shuffle"
    /\ selCell' = 1
    /\ UNCHANGED <<advVars, bkVars, gradeVars, runVars, admVars, dbVars, selConfig, selHistory, selExclude, selPool,
                   selBreakdown, selSelected, selGenerated, selGenCalls,
                   selResult>>

\* generateAdditionalQuestions: one iteration of the loop over the breakdown.
SelGenerateCell ==
    /\ selPc = "generate"
    /\ selCell <= Len(selBreakdown)
    /\ LET req == selBreakdown[selCell]
           need == req.count - HaveOfCell(selSelected, req)
       IN  IF need > 0
             THEN \E category \in (IF Len(selConfig.categories) > 0
                                     THEN Range(selConfig.categories)
                                     ELSE {"General"}) :
                  \E drafts \in GeneratorAnswers(category, req.difficulty, req.type) :
                     LET saved == SavedQuestions(drafts, nextId)
                     IN  /\ selGenCalls' = Append(selGenCalls,
                               [category |-> category, difficulty |-> req.difficulty,
                                questionType |-> req.type, count |-> need])
                         /\ store' = store \cup Range(saved)
                         /\ nextId' = nextId + Len(saved)
                         /\ selGenerated' = selGenerated \o saved
             ELSE UNCHANGED <<selGenCalls, store, nextId, selGenerated>>
    /\ selCell' = selCell + 1
    /\ UNCHANGED <<advVars, bkVars, gradeVars, runVars, admVars, histories, pools, today, selPc, selConfig,
                   selHistory, selExclude, selPool, selBreakdown, selSelected,
                   selResult>>

\* generateAdditionalQuestions returns generated.slice(0, count), which is
\* pushed onto selectedQuestions.
SelGenerated ==
    /\ selPc = "generate"
    /\ selCell > Len(selBreakdown)
    /\ LET count == selConfig.totalQuestions - Len(selSelected)
       IN  selSelected' = selSelected \o
              SubSeq(selGenerated, 1, Min(count, Len(selGenerated)))
    /\ selPc' = "shuffle"
    /\ UNCHANGED <<advVars, bkVars, gradeVars, runVars, admVars, dbVars, selConfig, selHistory, selExclude, selPool,
                   selBreakdown, selCell, selGenerated, selGenCalls, selResult>>

\* The selection is shuffled and returned.
SelShuffle ==
    /\ selPc = "shuffle"
    /\ \E rnd \in RandomDraws(Len(selSelected)) :
          selResult' = shuffleArray(selSelected, rnd)
    /\ selPc' = "done"
    /\ UNCHANGED <<advVars, bkVars, gradeVars, runVars, admVars, dbVars, selConfig, selHistory, selExclude, selPool,
                   selBreakdown, selCell, selSelected, selGenerated, selGenCalls>>

SelectNext ==
    \/ SelLoadHistory
    \/ SelCreateHistory
    \/ SelFindPool
    \/ SelSelectCell
    \/ SelSelected
    \/ SelGenerateCell
    \/ SelGenerated
    \/ SelShuffle

SelectSpec == SelectInit /\ [][SelectNext]_vars

\* C2: the list selectQuestionsForTest returns has at most
\* config.totalQuestions elements.
C2_AtMostTotalQuestions ==
    selPc = "done" => Len(selResult) <= selConfig.totalQuestions

\* The learner's seenQuestions log has an entry for the question id inside
\* the last recentQuestionDays days.
SeenInWindow(id) ==
    \E h \in 1..Len(histories) :
        /\ histories[h].student = Student
        /\ \E e \in 1..Len(histories[h].seenQuestions) :
              /\ histories[h].seenQuestions[e].question = id
              /\ histories[h].seenQuestions[e].seenAt
                    > today - selConfig.recentQuestionDays

\* The Store holds a question of the same cell and filters as q that the
\* learner has not seen inside the window and that was not returned.
StoreHasAlternative(q) ==
    \E alt \in store :
        /\ alt.difficulty = q.difficulty
        /\ alt.questionType = q.questionType
        /\ alt.isActive
        /\ (Len(selConfig.categories) > 0
                => alt.category \in Range(selConfig.categories))
        /\ ((Len(selPool) > 0 /\ selPool[1].questions # {})
                => alt._id \in selPool[1].questions)
        /\ ~SeenInWindow(alt._id)
        /\ alt \notin Range(selResult)

\* C3: with avoidRecentQuestions and recentQuestionDays > 0, no returned
\* question was seen by the learner inside the window, unless the Store had
\* no alternative to supply.
C3_NoRecentlySeenQuestion ==
    (selPc = "done" /\ selConfig.avoidRecentQuestions
        /\ selConfig.recentQuestionDays > 0)
    => \A i \in 1..Len(selResult) :
          SeenInWindow(selResult[i]._id) => ~StoreHasAlternative(selResult[i])

(***************************************************************************)
(* The vm2 sandbox, as submitTest and runCode use it                       *)
(***************************************************************************)
\* String(value) for the values of the model.
NumberToString(n) == <<"0", "1", "2", "3", "4", "5", "6", "7", "8", "9">>[n + 1]

Undefined == [t |-> "undefined", v |-> "undefined"]

StringOf(value) ==
    IF value.t = "number" THEN Str(NumberToString(value.v)) ELSE Str(value.v)

\* String(value) as Array.prototype.join makes it: undefined gives "".
JoinOf(value) ==
    IF value.t = "undefined" THEN "" ELSE StringOf(value).v

\* The global object of a VM.  The model follows one global binding, counter,
\* with 0 for "not defined", and whether the global object has a console.
\* sandbox: {} is the empty global object; the VMs of runCode are given a
\* console whose log collects the text.
EmptySandbox == [counter |-> 0, console |-> FALSE]
ConsoleSandbox == [counter |-> 0, console |-> TRUE]

\* The code texts a learner submits, by what they do when solution(input)
\* is called:
\*   "one"      returns 1
\*   "echo"     returns its input
\*   "text1"    returns the string "1"
\*   "counter"  counter = (counter || 0) + 1 on the global object, returns it
\*   "logger"   console.log(input), returns undefined
\*   "tally"    counter = (counter || 0) + 1, then console.log(counter)
\*   "throw"    throws (also: text that is no program, solution undefined)
\*   "loop"     never returns: the VM's timeout throws
\*   "loopOn2"  never returns when input is 2, returns 1 otherwise
Programs ==
    {"one", "echo", "text1", "counter", "logger", "tally", "throw", "loop",
     "loopOn2"}

\* vm.run(code + "; solution(input)") in a VM whose global object is
\* sandbox: the completion (returned value or thrown error), the text given
\* to console.log, and the global object afterwards.
VmRun(code, input, sandbox) ==
    CASE code = "one" ->
            [outcome |-> "ok", result |-> Num(1), logged |-> <<>>,
             sandbox |-> sandbox]
      [] code = "echo" ->
            [outcome |-> "ok", result |-> input, logged |-> <<>>,
             sandbox |-> sandbox]
      [] code = "text1" ->
            [outcome |-> "ok", result |-> Str("1"), logged |-> <<>>,
             sandbox |-> sandbox]
      [] code = "counter" ->
            [outcome |-> "ok", result |-> Num(sandbox.counter + 1),
             logged |-> <<>>,
             sandbox |-> [sandbox EXCEPT !.counter = sandbox.counter + 1]]
      [] code = "logger" ->
            IF sandbox.console
              THEN [outcome |-> "ok", result |-> Undefined,
                    logged |-> <<JoinOf(input)>>, sandbox |-> sandbox]
              ELSE [outcome |-> "error", result |-> Undefined,
                    logged |-> <<>>, sandbox |-> sandbox]
      [] code = "tally" ->
            LET counted == [sandbox EXCEPT !.counter = sandbox.counter + 1]
            IN  IF sandbox.console
                  THEN [outcome |-> "ok", result |-> Undefined,
                        logged |-> <<NumberToString(counted.counter)>>,
                        sandbox |-> counted]
                  ELSE [outcome |-> "error", result |-> Undefined,
                        logged |-> <<>>, sandbox |-> counted]
      [] code = "loop" ->
            [outcome |-> "timeout", result |-> Undefined, logged |-> <<>>,
             sandbox |-> sandbox]
      [] code = "loopOn2" ->
            IF input.v = 2
              THEN [outcome |-> "timeout", result |-> Undefined,
                    logged |-> <<>>, sandbox |-> sandbox]
              ELSE [outcome |-> "ok", result |-> Num(1), logged |-> <<>>,
                    sandbox |-> sandbox]
      [] OTHER ->
            [outcome |-> "error", result |-> Undefined, logged |-> <<>>,
             sandbox |-> sandbox]

\* One execution, as the logs of the model record it.
RunRecord(site, code, input, sandbox, run) ==
    [site |-> site, code |-> code, input |-> input, sandbox |-> sandbox,
     outcome |-> run.outcome, result |-> run.result, logged |-> run.logged]

\* The loop without its break statements: a failed case clears
\* passedAllCases and the remaining cases are run all the same.
RECURSIVE RunTestCasesNoBreak(_, _, _, _)
RunTestCasesNoBreak(code, testCases, k, runs) ==
    IF k > Len(testCases) THEN [passedAllCases |-> TRUE, runs |-> runs]
    ELSE LET vm == EmptySandbox
             run == VmRun(code, testCases[k].input, vm)
             log == Append(runs, RunRecord("submitTest", code,
                                           testCases[k].input, vm, run))
             rest == RunTestCasesNoBreak(code, testCases, k + 1, log)
         IN  IF run.outcome # "ok"
                  \/ StringOf(run.result) # StringOf(testCases[k].output)
               THEN [passedAllCases |-> FALSE, runs |-> rest.runs]
               ELSE rest

\* The loop of submitTest over question.testCases, from test case k on, with
\* runs the executions made so far: a new VM with sandbox: {} per test case,
\* break on the first mismatch or thrown error.
RECURSIVE RunTestCases(_, _, _, _)
RunTestCases(code, testCases, k, runs) ==
    IF k > Len(testCases) THEN [passedAllCases |-> TRUE, runs |-> runs]
    ELSE LET vm == EmptySandbox
             run == VmRun(code, testCases[k].input, vm)
             log == Append(runs, RunRecord("submitTest", code,
                                           testCases[k].input, vm, run))
         IN  IF run.outcome # "ok"
               THEN [passedAllCases |-> FALSE, runs |-> log]
             ELSE IF StringOf(run.result) # StringOf(testCases[k].output)
               THEN [passedAllCases |-> FALSE, runs |-> log]
             ELSE RunTestCases(code, testCases, k + 1, log)

\* The same loop with one VM made before the loop and used for every case.
RECURSIVE RunTestCasesOneVm(_, _, _, _, _)
RunTestCasesOneVm(code, testCases, k, runs, vm) ==
    IF k > Len(testCases) THEN [passedAllCases |-> TRUE, runs |-> runs]
    ELSE LET run == VmRun(code, testCases[k].input, vm)
             log == Append(runs, RunRecord("submitTest", code,
                                           testCases[k].input, vm, run))
         IN  IF run.outcome # "ok"
               THEN [passedAllCases |-> FALSE, runs |-> log]
             ELSE IF StringOf(run.result) # StringOf(testCases[k].output)
               THEN [passedAllCases |-> FALSE, runs |-> log]
             ELSE RunTestCasesOneVm(code, testCases, k + 1, log, run.sandbox)

GradeCodingOneVm(code, testCases) ==
    RunTestCasesOneVm(code, testCases, 1, <<>>, EmptySandbox)

\* The Coding branch of submitTest for one answer.
GradeCoding(code, testCases) == RunTestCases(code, testCases, 1, <<>>)

(***************************************************************************)
(* Grading: submitTest and updateStudentHistory                            *)
(***************************************************************************)
\* One element of req.body.answers.
Answer(questionId, answer) == [questionId |-> questionId, answer |-> answer]

\* test.questions.find(q => q._id.toString() === submittedAnswer.questionId),
\* as a list of zero or one questions.
FindQuestion(questions, questionId) ==
    LET hits == {i \in 1..Len(questions) :
                    IdToString(questions[i]._id) = questionId}
    IN  IF hits = {} THEN <<>>
        ELSE <<questions[CHOOSE i \in hits : \A j \in hits : i <= j]>>

\* The body of the loop of submitTest for one submitted answer: the points
\* it adds to score (-1 stands for "continue": no such question, nothing is
\* added) and the sandbox executions it makes.
GradeAnswer(questions, submittedAnswer) ==
    LET found == FindQuestion(questions, submittedAnswer.questionId)
    IN  IF found = <<>> THEN [points |-> -1, runs |-> <<>>]
        ELSE LET question == found[1]
             IN  IF question.questionType = "MCQ"
                   THEN [points |-> IF question.correctAnswer = submittedAnswer.answer
                                      THEN 1 ELSE 0,
                         runs |-> <<>>]
                 ELSE IF question.questionType = "Coding"
                   THEN LET graded == GradeCoding(submittedAnswer.answer.v,
                                                  question.testCases)
                        IN  [points |-> IF graded.passedAllCases THEN 1 ELSE 0,
                             runs |-> graded.runs]
                 ELSE [points |-> 0, runs |-> <<>>]

\* The whole loop: the score, and per answer the points and the executions.
RECURSIVE GradeAnswers(_, _, _)
GradeAnswers(questions, answers, i) ==
    IF i > Len(answers) THEN [score |-> 0, awarded |-> <<>>, runs |-> <<>>]
    ELSE LET one == GradeAnswer(questions, answers[i])
             rest == GradeAnswers(questions, answers, i + 1)
         IN  [score |-> (IF one.points = 1 THEN 1 ELSE 0) + rest.score,
              awarded |-> <<one.points>> \o rest.awarded,
              runs |-> <<one.runs>> \o rest.runs]

\* Math.ceil(totalQuestions * 0.6); for totalQuestions < 30 the double
\* product has the ceiling of the exact one.
PassingScore(totalQuestions) == (6 * totalQuestions + 9) \div 10

\* checkAnswer(question, answer) of the selector.
checkAnswer(question, answer) ==
    IF question.questionType = "MCQ" \/ question.questionType = "TrueFalse"
      THEN question.correctAnswer = answer
      ELSE FALSE

\* answers.find(a => a.questionId === q._id.toString()), zero or one answers.
FindAnswer(answers, q) ==
    LET hits == {i \in 1..Len(answers) :
                    answers[i].questionId = IdToString(q._id)}
    IN  IF hits = {} THEN <<>>
        ELSE <<answers[CHOOSE i \in hits : \A j \in hits : i <= j]>>

\* map.get(key) || { attempted: 0, correct: 0 }, then attempted++, correct++
\* when isCorrect, then map.set(key, perf).
BumpPerformance(map, key, isCorrect) ==
    LET perf == IF key \in DOMAIN map THEN map[key]
                ELSE [attempted |-> 0, correct |-> 0]
        bumped == [attempted |-> perf.attempted + 1,
                   correct |-> perf.correct + (IF isCorrect THEN 1 ELSE 0)]
    IN  [k \in DOMAIN map \cup {key} |-> IF k = key THEN bumped ELSE map[k]]

\* The loop over questions with an entry pushed for the answered questions
\* only.
RECURSIVE SeeAnsweredQuestions(_, _, _, _, _, _)
SeeAnsweredQuestions(history, testId, questions, answers, now, i) ==
    IF i > Len(questions) THEN history
    ELSE LET q == questions[i]
             answer == FindAnswer(answers, q)
             isCorrect == IF answer # <<>> THEN checkAnswer(q, answer[1].answer)
                          ELSE FALSE
             next == [history EXCEPT
                        !.seenQuestions =
                            IF answer # <<>>
                              THEN Append(@, SeenEntry(q._id, testId, now,
                                                       isCorrect))
                              ELSE @,
                        !.categoryPerformance =
                            BumpPerformance(@, q.category, isCorrect),
                        !.difficultyPerformance =
                            BumpPerformance(@, q.difficulty, isCorrect)]
         IN  SeeAnsweredQuestions(next, testId, questions, answers, now, i + 1)

\* The loop of updateStudentHistory over questions, from question i on.
RECURSIVE SeeQuestions(_, _, _, _, _, _)
SeeQuestions(history, testId, questions, answers, now, i) ==
    IF i > Len(questions) THEN history
    ELSE LET q == questions[i]
             answer == FindAnswer(answers, q)
             isCorrect == IF answer # <<>> THEN checkAnswer(q, answer[1].answer)
                          ELSE FALSE
             next == [history EXCEPT
                        !.seenQuestions =
                            Append(@, SeenEntry(q._id, testId, now, isCorrect)),
                        !.categoryPerformance =
                            BumpPerformance(@, q.category, isCorrect),
                        !.difficultyPerformance =
                            BumpPerformance(@, q.difficulty, isCorrect)]
         IN  SeeQuestions(next, testId, questions, answers, now, i + 1)

\* updateStudentHistory up to history.save(): the document as changed in
\* memory, or thrown when answers.filter reads questions[i] past the end of
\* questions (checkAnswer then reads questionType of undefined).
UpdatedHistory(history, testId, questions, answers, now) ==
    LET seen == SeeQuestions(history, testId, questions, answers, now, 1)
    IN  IF Len(answers) > Len(questions)
          THEN [thrown |-> TRUE, history |-> seen]
          ELSE [thrown |-> FALSE,
                history |-> [seen EXCEPT
                    !.totalQuestionsAttempted = @ + Len(questions),
                    !.correctAnswers = @ + Cardinality(
                        {i \in 1..Len(answers) :
                            checkAnswer(questions[i], answers[i].answer)})]]

\* history.save() of a document loaded as loaded and changed in memory to
\* changed, on what the collection holds now (stored): Mongoose sends the
\* changes only: $push of the pushed entries, $set of the numbers that
\* differ and of the map keys that were set.
SavedHistory(stored, loaded, changed) ==
    [stored EXCEPT
        !.seenQuestions =
            @ \o SubSeq(changed.seenQuestions, Len(loaded.seenQuestions) + 1,
                        Len(changed.seenQuestions)),
        !.totalQuestionsAttempted =
            IF changed.totalQuestionsAttempted # loaded.totalQuestionsAttempted
              THEN changed.totalQuestionsAttempted ELSE @,
        !.correctAnswers =
            IF changed.correctAnswers # loaded.correctAnswers
              THEN changed.correctAnswers ELSE @,
        !.categoryPerformance =
            LET set == {k \in DOMAIN changed.categoryPerformance :
                           k \notin DOMAIN loaded.categoryPerformance
                           \/ changed.categoryPerformance[k]
                                # loaded.categoryPerformance[k]}
            IN  [k \in DOMAIN @ \cup set |->
                    IF k \in set THEN changed.categoryPerformance[k] ELSE @[k]],
        !.difficultyPerformance =
            LET set == {k \in DOMAIN changed.difficultyPerformance :
                           k \notin DOMAIN loaded.difficultyPerformance
                           \/ changed.difficultyPerformance[k]
                                # loaded.difficultyPerformance[k]}
            IN  [k \in DOMAIN @ \cup set |->
                    IF k \in set THEN changed.difficultyPerformance[k] ELSE @[k]]]

(***************************************************************************)
(* The submitTest handler, one action per point where it awaits            *)
(***************************************************************************)
TheTest == ObjectId(300)
MissingTest == ObjectId(301)
Admins == {ObjectId(400)}

\* populate('questions'): the Question documents of the test, in its order.
Populated(questionIds) ==
    LET present == SelectSeq(questionIds,
                             LAMBDA id : \E q \in store : q._id = id)
    IN  [i \in 1..Len(present) |-> CHOOSE q \in store : q._id = present[i]]

\* test.save() of a Test loaded as loaded, after test.score = score and
\* test.status = 'Completed': the paths that changed are set.
SavedTest(stored, loaded, score) ==
    [stored EXCEPT
        !.score = IF score # loaded.score THEN score ELSE @,
        !.status = IF loaded.status # "Completed" THEN "Completed" ELSE @]

\* Test.findById finds nothing: 404.
SubmitTestNotFound(p) ==
    /\ reqs[p].pc = "start"
    /\ reqs[p].testId # testDoc._id
    /\ reqs' = [reqs EXCEPT ![p].pc = "done",
                            ![p].response = <<[status |-> 404]>>]
    /\ UNCHANGED <<advVars, bkVars, dbVars, selVars, runVars, admVars, testDoc,
                   submissions, leaveStatus, notifications>>

\* Test.findById(req.params.id).populate('questions').
SubmitFindTest(p) ==
    /\ reqs[p].pc = "start"
    /\ reqs[p].testId = testDoc._id
    /\ reqs' = [reqs EXCEPT ![p].pc = "grade",
                            ![p].test = <<testDoc>>,
                            ![p].questions = Populated(testDoc.questions)]
    /\ UNCHANGED <<advVars, bkVars, dbVars, selVars, runVars, admVars, testDoc,
                   submissions, leaveStatus, notifications>>

\* The grading step with VMs that have no timeout: vm.run on code that
\* loops for ever does not return and the handler stays at that test case.
SubmitGradeNoTimeout(p) ==
    /\ reqs[p].pc = "grade"
    /\ LET graded == GradeAnswers(reqs[p].questions, reqs[p].answers, 1)
       IN  \A i \in 1..Len(graded.runs) : \A k \in 1..Len(graded.runs[i]) :
              graded.runs[i][k].outcome # "timeout"
    /\ LET graded == GradeAnswers(reqs[p].questions, reqs[p].answers, 1)
           totalQuestions == Len(reqs[p].questions)
           passingScore == PassingScore(totalQuestions)
       IN  /\ testDoc' = SavedTest(testDoc, reqs[p].test[1], graded.score)
           /\ reqs' = [reqs EXCEPT
                         ![p].pc = "submission",
                         ![p].score = graded.score,
                         ![p].awarded = graded.awarded,
                         ![p].runs = graded.runs,
                         ![p].totalQuestions = totalQuestions,
                         ![p].isPassed = (graded.score >= passingScore)]
    /\ UNCHANGED <<advVars, bkVars, dbVars, selVars, runVars, admVars, submissions,
                   leaveStatus, notifications>>

\* The grading step without the try/catch around vm.run: an error thrown in
\* a test case leaves the handler, which answers 500 and saves nothing.
SubmitGradeNoCatch(p) ==
    /\ reqs[p].pc = "grade"
    /\ LET graded == GradeAnswers(reqs[p].questions, reqs[p].answers, 1)
           totalQuestions == Len(reqs[p].questions)
           passingScore == PassingScore(totalQuestions)
           thrown == \E i \in 1..Len(graded.runs) :
                        \E k \in 1..Len(graded.runs[i]) :
                            graded.runs[i][k].outcome # "ok"
       IN  IF thrown
             THEN /\ testDoc' = testDoc
                  /\ reqs' = [reqs EXCEPT ![p].pc = "done",
                                          ![p].response = <<[status |-> 500]>>]
             ELSE /\ testDoc' = SavedTest(testDoc, reqs[p].test[1], graded.score)
                  /\ reqs' = [reqs EXCEPT
                                ![p].pc = "submission",
                                ![p].score = graded.score,
                                ![p].awarded = graded.awarded,
                                ![p].runs = graded.runs,
                                ![p].totalQuestions = totalQuestions,
                                ![p].isPassed = (graded.score >= passingScore)]
    /\ UNCHANGED <<advVars, bkVars, dbVars, selVars, runVars, admVars, submissions,
                   leaveStatus, notifications>>

\* The grading step with the points added to the score the Test has
\* already: score starts from test.score.
SubmitGradeAccumulates(p) ==
    /\ reqs[p].pc = "grade"
    /\ LET graded == GradeAnswers(reqs[p].questions, reqs[p].answers, 1)
           score == reqs[p].test[1].score + graded.score
           totalQuestions == Len(reqs[p].questions)
           passingScore == PassingScore(totalQuestions)
       IN  /\ testDoc' = SavedTest(testDoc, reqs[p].test[1], score)
           /\ reqs' = [reqs EXCEPT
                         ![p].pc = "submission",
                         ![p].score = score,
                         ![p].awarded = graded.awarded,
                         ![p].runs = graded.runs,
                         ![p].totalQuestions = totalQuestions,
                         ![p].isPassed = (score >= passingScore)]
    /\ UNCHANGED <<advVars, bkVars, dbVars, selVars, runVars, admVars,
                   submissions, leaveStatus, notifications>>

\* The answers are graded, the score and the status are saved on the Test,
\* and isPassed is computed.
SubmitGrade(p) ==
    /\ reqs[p].pc = "grade"
    /\ LET graded == GradeAnswers(reqs[p].questions, reqs[p].answers, 1)
           totalQuestions == Len(reqs[p].questions)
           passingScore == PassingScore(totalQuestions)
       IN  /\ testDoc' = SavedTest(testDoc, reqs[p].test[1], graded.score)
           /\ reqs' = [reqs EXCEPT
                         ![p].pc = "submission",
                         ![p].score = graded.score,
                         ![p].awarded = graded.awarded,
                         ![p].runs = graded.runs,
                         ![p].totalQuestions = totalQuestions,
                         ![p].isPassed = (graded.score >= passingScore)]
    /\ UNCHANGED <<advVars, bkVars, dbVars, selVars, runVars, admVars, submissions,
                   leaveStatus, notifications>>

\* The Submission is saved.
SubmitSaveSubmission(p) ==
    /\ reqs[p].pc = "submission"
    /\ submissions' = Append(submissions,
          [test |-> reqs[p].test[1]._id, student |-> Student,
           answers |-> reqs[p].answers, score |-> reqs[p].score,
           totalQuestions |-> reqs[p].totalQuestions,
           isPassed |-> reqs[p].isPassed])
    /\ reqs' = [reqs EXCEPT ![p].pc = "history"]
    /\ UNCHANGED <<advVars, bkVars, dbVars, selVars, runVars, admVars, testDoc,
                   leaveStatus, notifications>>

\* updateStudentHistory, getStudentHistory: the learner's record is found.
SubmitFindHistory(p) ==
    /\ reqs[p].pc = "history"
    /\ FindHistory(histories, Student) # <<>>
    /\ LET at == FindHistory(histories, Student)[1]
       IN  reqs' = [reqs EXCEPT ![p].pc = "update",
                                ![p].history = <<histories[at]>>,
                                ![p].historyAt = at]
    /\ UNCHANGED <<advVars, bkVars, dbVars, selVars, runVars, admVars, testDoc,
                   submissions, leaveStatus, notifications>>

\* updateStudentHistory, getStudentHistory: findOne finds no record.
SubmitHistoryMissing(p) ==
    /\ reqs[p].pc = "history"
    /\ FindHistory(histories, Student) = <<>>
    /\ reqs' = [reqs EXCEPT ![p].pc = "create"]
    /\ UNCHANGED <<advVars, bkVars, dbVars, selVars, runVars, admVars, testDoc,
                   submissions, leaveStatus, notifications>>

\* updateStudentHistory, getStudentHistory: after findOne found nothing, a
\* new record is made and saved.
SubmitCreateHistory(p) ==
    /\ reqs[p].pc = "create"
    /\ histories' = Append(histories, NewHistory(Student))
    /\ reqs' = [reqs EXCEPT ![p].pc = "update",
                            ![p].history = <<NewHistory(Student)>>,
                            ![p].historyAt = Len(histories) + 1]
    /\ UNCHANGED <<advVars, bkVars, store, nextId, pools, today, selVars, runVars,
                   admVars, testDoc, submissions, leaveStatus, notifications>>

\* updateStudentHistory: the record is changed in memory and saved.
SubmitUpdateHistory(p) ==
    /\ reqs[p].pc = "update"
    /\ LET updated == UpdatedHistory(reqs[p].history[1], reqs[p].test[1]._id,
                                     reqs[p].questions, reqs[p].answers, today)
       IN  /\ ~updated.thrown
           /\ histories' = [histories EXCEPT ![reqs[p].historyAt] =
                  SavedHistory(@, reqs[p].history[1], updated.history)]
    /\ reqs' = [reqs EXCEPT ![p].pc = "leave"]
    /\ UNCHANGED <<advVars, bkVars, store, nextId, pools, today, selVars, runVars,
                   admVars, testDoc, submissions, leaveStatus, notifications>>

\* The failed history update without the try/catch of submitTest: the
\* error leaves the handler, which answers 500.
SubmitHistoryFailedPropagates(p) ==
    /\ reqs[p].pc = "update"
    /\ UpdatedHistory(reqs[p].history[1], reqs[p].test[1]._id,
                      reqs[p].questions, reqs[p].answers, today).thrown
    /\ reqs' = [reqs EXCEPT ![p].pc = "done", ![p].historyError = TRUE,
                            ![p].response = <<[status |-> 500]>>]
    /\ UNCHANGED <<advVars, bkVars, dbVars, selVars, runVars, admVars, testDoc,
                   submissions, leaveStatus, notifications>>

\* updateStudentHistory throws before history.save(); submitTest catches
\* and logs the error.
SubmitHistoryFailed(p) ==
    /\ reqs[p].pc = "update"
    /\ UpdatedHistory(reqs[p].history[1], reqs[p].test[1]._id,
                      reqs[p].questions, reqs[p].answers, today).thrown
    /\ reqs' = [reqs EXCEPT ![p].pc = "leave", ![p].historyError = TRUE]
    /\ UNCHANGED <<advVars, bkVars, dbVars, selVars, runVars, admVars, testDoc,
                   submissions, leaveStatus, notifications>>

\* The leave request is marked 'Test Completed'.
SubmitCompleteLeave(p) ==
    /\ reqs[p].pc = "leave"
    /\ leaveStatus' = "Test Completed"
    /\ reqs' = [reqs EXCEPT ![p].pc = "notify"]
    /\ UNCHANGED <<advVars, bkVars, dbVars, selVars, runVars, admVars, testDoc,
                   submissions, notifications>>

\* Every admin is notified and the result is sent.
SubmitRespond(p) ==
    /\ reqs[p].pc = "notify"
    /\ notifications' = notifications + Cardinality(Admins)
    /\ reqs' = [reqs EXCEPT
                  ![p].pc = "done",
                  ![p].response = <<[status |-> 200, score |-> reqs[p].score,
                                     isPassed |-> reqs[p].isPassed,
                                     totalQuestions |-> reqs[p].totalQuestions]>>]
    /\ UNCHANGED <<advVars, bkVars, dbVars, selVars, runVars, admVars, testDoc,
                   submissions, leaveStatus>>

SubmitTest(p) ==
    \/ SubmitTestNotFound(p)
    \/ SubmitFindTest(p)
    \/ SubmitGrade(p)
    \/ SubmitSaveSubmission(p)
    \/ SubmitFindHistory(p)
    \/ SubmitHistoryMissing(p)
    \/ SubmitCreateHistory(p)
    \/ SubmitUpdateHistory(p)
    \/ SubmitHistoryFailed(p)
    \/ SubmitCompleteLeave(p)
    \/ SubmitRespond(p)

(***************************************************************************)
(* Specification of one submitTest request                                 *)
(***************************************************************************)
\* The answers a learner may give to a question; "A" for a Coding question
\* is text that defines no solution.
AnswerValues(q) ==
    IF q.questionType = "Coding"
      THEN {Str(code) : code \in Programs} \cup {Str("A")}
    ELSE IF q.questionType = "TrueFalse" THEN {Str("True"), Str("False")}
    ELSE {Str("A"), Str("B")}

ForeignQuestion == ObjectId(9)

\* The elements req.body.answers may have for a test on questionIds.
AnswerChoices(questionIds) ==
    UNION {{Answer(IdToString(q._id), a) : a \in AnswerValues(q)} :
              q \in {b \in Bank : b._id \in Range(questionIds)}}
    \cup {Answer(IdToString(ForeignQuestion), Str("A"))}

AnswerLists(questionIds) ==
    UNION {[1..n -> AnswerChoices(questionIds)] : n \in 0..MaxAnswers}

TestQuestionChoices ==
    {<<ObjectId(1)>>, <<ObjectId(5)>>, <<ObjectId(1), ObjectId(4)>>,
     <<ObjectId(4), ObjectId(5)>>, <<ObjectId(1), ObjectId(4), ObjectId(5)>>}

TestChoices ==
    {[_id |-> TheTest, questions |-> qs, passingPercentage |-> pp,
      score |-> 0, status |-> "Assigned"] :
        qs \in TestQuestionChoices, pp \in {50, 60, 80}}

NewRequest(testId, answers) ==
    [NoRequest EXCEPT !.pc = "start", !.testId = testId, !.answers = answers]

GradeInit ==
    /\ AdvIdle
    /\ BkIdle
    /\ SelIdle
    /\ RunIdle
    /\ AdmIdle
    /\ store = Bank
    /\ nextId = 11
    /\ today = 100
    /\ histories \in {<<>>, <<SeenHistory([n \in {1, 2} |-> "old"], today)>>}
    /\ pools = <<>>
    /\ testDoc \in TestChoices
    /\ submissions = <<>>
    /\ leaveStatus = "Test Assigned"
    /\ notifications = 0
    /\ \E answers \in AnswerLists(testDoc.questions) :
       \E testId \in {TheTest, MissingTest} :
          /\ (testId = MissingTest => answers = <<>>)
          /\ reqs = [p \in Requests |->
                        IF p = 1 THEN NewRequest(testId, answers) ELSE NoRequest]

GradeNext == \E p \in Requests : SubmitTest(p)

GradeSpec == GradeInit /\ [][GradeNext]_vars

\* The requests whose answers have been graded.
Graded == {p \in Requests : reqs[p].pc \in
              {"submission", "history", "create", "update", "leave", "notify",
               "done"}
              /\ reqs[p].test # <<>>}

\* C4: an answered MCQ or TrueFalse question adds one point exactly when the
\* submitted answer equals the stored correctAnswer.
C4_ObjectivePointOnEquality ==
    \A p \in Graded : \A i \in 1..Len(reqs[p].answers) :
        LET found == FindQuestion(reqs[p].questions, reqs[p].answers[i].questionId)
        IN  (found # <<>> /\ found[1].questionType \in {"MCQ", "TrueFalse"})
            => (reqs[p].awarded[i] = 1
                  <=> found[1].correctAnswer = reqs[p].answers[i].answer)

\* One test case passes: the run in a VM of its own ends without an error
\* and String(result) is String(testCase.output).
CasePasses(code, testCase) ==
    LET run == VmRun(code, testCase.input, EmptySandbox)
    IN  run.outcome = "ok" /\ StringOf(run.result) = StringOf(testCase.output)

\* The number of test cases run when the loop stops at the first failure.
CasesRun(code, testCases) ==
    LET failing == {k \in 1..Len(testCases) : ~CasePasses(code, testCases[k])}
    IN  IF failing = {} THEN Len(testCases)
        ELSE CHOOSE k \in failing : \A j \in failing : k <= j

\* C5: a Coding question adds one point exactly when every test case of it
\* passes; the cases after the first failing one are not run and the
\* question adds nothing.
C5_CodingAllCasesOrNothing ==
    \A p \in Graded : \A i \in 1..Len(reqs[p].answers) :
        LET found == FindQuestion(reqs[p].questions, reqs[p].answers[i].questionId)
            code == reqs[p].answers[i].answer.v
        IN  (found # <<>> /\ found[1].questionType = "Coding")
            => /\ reqs[p].awarded[i] = 1
                    <=> \A k \in 1..Len(found[1].testCases) :
                            CasePasses(code, found[1].testCases[k])
               /\ reqs[p].awarded[i] \in {0, 1}
               /\ Len(reqs[p].runs[i]) = CasesRun(code, found[1].testCases)

\* A Coding answer of three test cases was graded whose first case passed and
\* whose second case timed out: the third case was not run and no point given.
C5_Witness ==
    \E p \in Graded : \E i \in 1..Len(reqs[p].answers) :
        LET found == FindQuestion(reqs[p].questions, reqs[p].answers[i].questionId)
        IN  /\ found # <<>>
            /\ found[1].questionType = "Coding"
            /\ Len(found[1].testCases) = 3
            /\ Len(reqs[p].runs[i]) = 2
            /\ reqs[p].runs[i][2].outcome = "timeout"
            /\ reqs[p].awarded[i] = 0
            /\ reqs[p].score = 0

\* Math.ceil(totalQuestions * percentage / 100).
CeilPct(n, pct) == (n * pct + 99) \div 100

ResubmitAnswerSheets ==
    {<<>>,
     <<Answer(IdToString(ObjectId(1)), Str("A"))>>,
     <<Answer(IdToString(ObjectId(1)), Str("A")),
       Answer(IdToString(ObjectId(4)), Str("True"))>>,
     <<Answer(IdToString(ObjectId(1)), Str("B")),
       Answer(IdToString(ObjectId(4)), Str("True")),
       Answer(IdToString(ForeignQuestion), Str("A"))>>}

ResubmitInit ==
    /\ AdvIdle
    /\ BkIdle
    /\ SelIdle
    /\ RunIdle
    /\ AdmIdle
    /\ store = Bank
    /\ nextId = 11
    /\ today = 100
    /\ histories \in {<<>>, <<SeenHistory([n \in {1, 2} |-> "old"], today)>>}
    /\ pools = <<>>
    /\ testDoc = [_id |-> TheTest, questions |-> <<ObjectId(1), ObjectId(4)>>,
                  passingPercentage |-> 60, score |-> 0, status |-> "Assigned"]
    /\ submissions = <<>>
    /\ leaveStatus = "Test Assigned"
    /\ notifications = 0
    /\ \E first \in ResubmitAnswerSheets : \E second \in ResubmitAnswerSheets :
       \E testId \in {TheTest, MissingTest} :
          /\ (testId = MissingTest => second = <<>>)
          /\ reqs = [p \in Requests |->
                        IF p = 1 THEN NewRequest(TheTest, first)
                                 ELSE NewRequest(testId, second)]

ResubmitNext == \E p \in Requests : SubmitTest(p)

ResubmitSpec == ResubmitInit /\ [][ResubmitNext]_vars

\* The request p read the Test when an earlier submission had completed it.
Resubmission(p) ==
    reqs[p].test # <<>> /\ reqs[p].test[1].status = "Completed"

\* C7: a Test's score and status are written once: no step of a second or
\* later submission changes the Test's score or status or the learner's
\* history.
C7_ScoreAndHistoryWrittenOnce ==
    [][\A p \in Requests :
          (reqs'[p].pc # reqs[p].pc /\ Resubmission(p))
          => /\ testDoc'.score = testDoc.score
             /\ testDoc'.status = testDoc.status
             /\ histories' = histories]_vars

\* C8: in every persisted state of a learner's history,
\* totalQuestionsAttempted is the number of entries of seenQuestions.
C8_AttemptedIsSeenCount ==
    \A h \in 1..Len(histories) :
        histories[h].totalQuestionsAttempted = Len(histories[h].seenQuestions)

(***************************************************************************)
(* Question pools: createQuestionPool and updateQuestionPool, one action   *)
(* per point where a handler awaits                                        *)
(***************************************************************************)
\* req.body.isDefault, given as zero or one booleans, is truthy.
Truthy(maybe) == maybe = <<TRUE>>

\* QuestionPool.updateMany({}, { isDefault: false }).
UnsetDefaults(coll) ==
    [i \in 1..Len(coll) |-> [coll[i] EXCEPT !.isDefault = FALSE]]

\* QuestionPool.findByIdAndUpdate(id, body): the paths body has are set.
PoolUpdated(coll, poolId, isDefault) ==
    [i \in 1..Len(coll) |->
        IF coll[i]._id = ObjectId(poolId) /\ isDefault # <<>>
          THEN [coll[i] EXCEPT !.isDefault = isDefault[1]]
          ELSE coll[i]]

\* createQuestionPool without a name: 400.
CreatePoolNoName(a) ==
    /\ adm[a].pc = "start"
    /\ adm[a].kind = "create"
    /\ ~adm[a].name
    /\ adm' = [adm EXCEPT ![a].pc = "done", ![a].status = 400]
    /\ UNCHANGED <<advVars, bkVars, dbVars, selVars, gradeVars, runVars>>

\* createQuestionPool with isDefault: the other defaults are unset.
CreatePoolUnsetDefaults(a) ==
    /\ adm[a].pc = "start"
    /\ adm[a].kind = "create"
    /\ adm[a].name
    /\ Truthy(adm[a].isDefault)
    /\ pools' = UnsetDefaults(pools)
    /\ adm' = [adm EXCEPT ![a].pc = "save"]
    /\ UNCHANGED <<advVars, bkVars, store, nextId, histories, today, selVars,
                   gradeVars, runVars>>

\* createQuestionPool: the new pool is saved.
CreatePoolSave(a) ==
    /\ adm[a].kind = "create"
    /\ \/ adm[a].pc = "save"
       \/ adm[a].pc = "start" /\ adm[a].name /\ ~Truthy(adm[a].isDefault)
    /\ pools' = Append(pools, Pool(Len(pools) + 1, <<>>,
                                   Truthy(adm[a].isDefault), TRUE))
    /\ adm' = [adm EXCEPT ![a].pc = "done", ![a].status = 201]
    /\ UNCHANGED <<advVars, bkVars, store, nextId, histories, today, selVars,
                   gradeVars, runVars>>

\* updateQuestionPool: findById finds nothing, 404.
UpdatePoolNotFound(a) ==
    /\ adm[a].pc = "start"
    /\ adm[a].kind = "update"
    /\ FindPoolById(pools, adm[a].id) = <<>>
    /\ adm' = [adm EXCEPT ![a].pc = "done", ![a].status = 404]
    /\ UNCHANGED <<advVars, bkVars, dbVars, selVars, gradeVars, runVars>>

\* updateQuestionPool: findById finds the pool.
UpdatePoolFound(a) ==
    /\ adm[a].pc = "start"
    /\ adm[a].kind = "update"
    /\ FindPoolById(pools, adm[a].id) # <<>>
    /\ adm' = [adm EXCEPT ![a].pc =
                  IF Truthy(adm[a].isDefault) THEN "unset" ELSE "update"]
    /\ UNCHANGED <<advVars, bkVars, dbVars, selVars, gradeVars, runVars>>

\* updateQuestionPool with isDefault: the defaults are unset.
UpdatePoolUnsetDefaults(a) ==
    /\ adm[a].pc = "unset"
    /\ pools' = UnsetDefaults(pools)
    /\ adm' = [adm EXCEPT ![a].pc = "update"]
    /\ UNCHANGED <<advVars, bkVars, store, nextId, histories, today, selVars,
                   gradeVars, runVars>>

\* updateQuestionPool: findByIdAndUpdate(req.params.id, req.body).
UpdatePoolApply(a) ==
    /\ adm[a].pc = "update"
    /\ pools' = PoolUpdated(pools, adm[a].id, adm[a].isDefault)
    /\ adm' = [adm EXCEPT ![a].pc = "done", ![a].status = 200]
    /\ UNCHANGED <<advVars, bkVars, store, nextId, histories, today, selVars,
                   gradeVars, runVars>>

\* The pool collections the requests start from.
PoolChoices ==
    {<<>>,
     <<Pool(1, <<>>, FALSE, TRUE)>>,
     <<Pool(1, <<>>, TRUE, TRUE)>>,
     <<Pool(1, <<>>, TRUE, TRUE), Pool(2, <<>>, FALSE, TRUE)>>}

\* The requests an admin may send.
AdminRequestChoices ==
    {[pc |-> "start", kind |-> "create", id |-> 0, name |-> name,
      isDefault |-> isDefault, status |-> 0] :
        name \in BOOLEAN, isDefault \in {<<>>, <<TRUE>>, <<FALSE>>}}
    \cup {[pc |-> "start", kind |-> "update", id |-> id, name |-> FALSE,
           isDefault |-> isDefault, status |-> 0] :
             id \in 1..3, isDefault \in {<<>>, <<TRUE>>, <<FALSE>>}}

PoolInit ==
    /\ AdvIdle
    /\ BkIdle
    /\ SelIdle
    /\ GradeIdle
    /\ RunIdle
    /\ store = {}
    /\ nextId = 1
    /\ histories = <<>>
    /\ today = 0
    /\ pools \in PoolChoices
    /\ adm \in [AdminRequests -> AdminRequestChoices]

PoolNext ==
    \E a \in AdminRequests :
        \/ CreatePoolNoName(a)
        \/ CreatePoolUnsetDefaults(a)
        \/ CreatePoolSave(a)
        \/ UpdatePoolNotFound(a)
        \/ UpdatePoolFound(a)
        \/ UpdatePoolUnsetDefaults(a)
        \/ UpdatePoolApply(a)

PoolSpec == PoolInit /\ [][PoolNext]_vars

\* The pools marked default.
DefaultPools(coll) == {i \in 1..Len(coll) : coll[i].isDefault}

\* C9: after any interleaving of createQuestionPool and updateQuestionPool
\* requests at most one QuestionPool has isDefault = true.
C9_AtMostOneDefaultPool ==
    Cardinality(DefaultPools(pools)) <= 1

(***************************************************************************)
(* runCode                                                                 *)
(***************************************************************************)
\* String.prototype.trim on the texts of the model: those with white space
\* at an end lose it.
Trim(text) ==
    CASE text = "1 " -> "1"
      [] text = " 1" -> "1"
      [] OTHER -> text

\* The texts given to console.log during one run, one after the other.
RECURSIVE Joined(_)
Joined(logged) ==
    IF logged = <<>> THEN "" ELSE logged[1] \o Joined(Tail(logged))

\* vm.run of the first VM of runCode: with a sampleInput the code and
\* console.log(solution(sampleInput)), without one the code alone, which
\* defines solution and calls nothing.
RunSample(code, sampleInput) ==
    IF sampleInput = <<>>
      THEN IF code \in Programs
             THEN [outcome |-> "ok", result |-> Undefined, logged |-> <<>>,
                   sandbox |-> ConsoleSandbox]
             ELSE [outcome |-> "error", result |-> Undefined, logged |-> <<>>,
                   sandbox |-> ConsoleSandbox]
      ELSE LET run == VmRun(code, sampleInput[1], ConsoleSandbox)
           IN  IF run.outcome = "ok"
                 THEN [run EXCEPT !.logged = Append(@, JoinOf(run.result))]
                 ELSE run

\* One test case of runCode in the VM vm: the execution and the line of the
\* test results.  tc.output.trim() throws when the output is no string.
RunCodeCase(code, tc, vm) ==
    LET run == VmRun(code, tc.input, vm)
        testOutput == Joined(run.logged)
        verdict == IF run.outcome # "ok" THEN "ERROR"
                   ELSE IF tc.output.t # "string" THEN "ERROR"
                   ELSE IF Trim(testOutput) = Trim(tc.output.v) THEN "PASSED"
                   ELSE "FAILED"
    IN  [run |-> run, line |-> [verdict |-> verdict, got |-> testOutput]]

\* testCases.forEach of runCode from test case k on: a new VM per test case,
\* given a console; an error of one case is caught and the next case runs.
RECURSIVE RunCodeCases(_, _, _, _)
RunCodeCases(code, testCases, k, done) ==
    IF k > Len(testCases) THEN done
    ELSE LET testVm == ConsoleSandbox
             one == RunCodeCase(code, testCases[k], testVm)
         IN  RunCodeCases(code, testCases, k + 1,
                [runs |-> Append(done.runs,
                                 RunRecord("runCode", code, testCases[k].input,
                                           testVm, one.run)),
                 lines |-> Append(done.lines, one.line)])

\* runCode without code: 400.
RunCodeNoCode ==
    /\ rcPc = "start"
    /\ rcBody[1].code = ""
    /\ rcPc' = "done"
    /\ rcOutput' = <<[status |-> 400, kind |-> "none", sample |-> <<>>,
                      lines |-> <<>>]>>
    /\ UNCHANGED <<advVars, bkVars, dbVars, selVars, gradeVars, admVars, rcBody, rcRuns>>

\* runCode with code; the handler awaits nothing.
RunCode ==
    /\ rcPc = "start"
    /\ rcBody[1].code # ""
    /\ LET body == rcBody[1]
           sample == RunSample(body.code, body.sampleInput)
           cases == RunCodeCases(body.code, body.testCases, 1,
                                 [runs |-> <<>>, lines |-> <<>>])
       IN  IF body.language # "javascript"
             THEN /\ rcRuns' = <<>>
                  /\ rcOutput' = <<[status |-> 200, kind |-> body.language,
                                    sample |-> <<>>, lines |-> <<>>]>>
           ELSE IF sample.outcome # "ok"
             THEN /\ rcRuns' = <<>>
                  /\ rcOutput' = <<[status |-> 200, kind |-> "Error",
                                    sample |-> <<>>, lines |-> <<>>]>>
           ELSE /\ rcRuns' = cases.runs
                /\ rcOutput' = <<[status |-> 200, kind |-> "output",
                                  sample |-> sample.logged,
                                  lines |-> cases.lines]>>
    /\ rcPc' = "done"
    /\ UNCHANGED <<advVars, bkVars, dbVars, selVars, gradeVars, admVars, rcBody>>

(***************************************************************************)
(* Specification of the sandbox executions: one submitTest request on a    *)
(* test of the Coding question and one runCode request                     *)
(***************************************************************************)
SandboxPrograms == {"counter", "tally", "logger", "loopOn2"}

SandboxAnswerSheets ==
    LET one == {Answer(IdToString(ObjectId(5)), Str(code)) :
                   code \in SandboxPrograms}
    IN  {<<a>> : a \in one} \cup {<<a, b>> : a \in one, b \in one}

RunCodeTestCases ==
    {<<>>,
     <<TestCase(Num(1), Str("1"))>>,
     <<TestCase(Num(1), Str("1")), TestCase(Num(2), Str("1 "))>>,
     <<TestCase(Num(2), Str("1")), TestCase(Num(1), Num(1)),
       TestCase(Num(1), Str(" 1"))>>}

RunCodeBodies ==
    {[code |-> code, language |-> "javascript", testCases |-> tcs,
      sampleInput |-> sampleInput] :
        code \in SandboxPrograms \cup {"throw"}, tcs \in RunCodeTestCases,
        sampleInput \in {<<>>, <<Num(1)>>}}
    \cup {[code |-> code, language |-> language, testCases |-> <<>>,
           sampleInput |-> <<>>] :
             code \in {"", "one"}, language \in {"javascript", "python", "go"}}

SandboxInit ==
    /\ AdvIdle
    /\ BkIdle
    /\ SelIdle
    /\ AdmIdle
    /\ store = Bank
    /\ nextId = 11
    /\ today = 100
    /\ histories \in {<<>>, <<SeenHistory([n \in {1, 2} |-> "old"], today)>>}
    /\ pools = <<>>
    /\ testDoc = [_id |-> TheTest, questions |-> <<ObjectId(5)>>,
                  passingPercentage |-> 60, score |-> 0, status |-> "Assigned"]
    /\ submissions = <<>>
    /\ leaveStatus = "Test Assigned"
    /\ notifications = 0
    /\ \E answers \in SandboxAnswerSheets :
       \E other \in {NoRequest, NewRequest(MissingTest, <<>>)} :
          reqs = [p \in Requests |->
                     IF p = 1 THEN NewRequest(TheTest, answers) ELSE other]
    /\ rcPc = "start"
    /\ rcBody \in {<<body>> : body \in RunCodeBodies}
    /\ rcRuns = <<>>
    /\ rcOutput = <<>>

SandboxNext ==
    \/ \E p \in Requests : SubmitTest(p)
    \/ RunCodeNoCode
    \/ RunCode

SandboxSpec == SandboxInit /\ [][SandboxNext]_vars

\* The global object an execution of the site starts with when nothing of
\* an earlier execution is left in it.
FreshSandbox(site) ==
    IF site = "submitTest" THEN EmptySandbox ELSE ConsoleSandbox

\* The execution r started from a fresh global object and ended as the same
\* code on the same input ends when it is the only execution ever made.
RunsAlone(r) ==
    LET alone == VmRun(r.code, r.input, FreshSandbox(r.site))
    IN  /\ r.sandbox = FreshSandbox(r.site)
        /\ r.outcome = alone.outcome
        /\ r.result = alone.result
        /\ r.logged = alone.logged

\* C10: every sandbox execution of submitTest and every per-test-case
\* execution of runCode gets a fresh environment: a global binding changed
\* by the submitted code during an earlier execution is not visible to it
\* and does not change its output.
C10_FreshEnvironmentPerExecution ==
    /\ \A p \in Graded : \A i \in 1..Len(reqs[p].runs) :
          \A k \in 1..Len(reqs[p].runs[i]) : RunsAlone(reqs[p].runs[i][k])
    /\ \A k \in 1..Len(rcRuns) : RunsAlone(rcRuns[k])

\* A submission whose code counts its calls in a global binding was graded
\* on all three test cases and got the point, and runCode ran code that
\* logs such a count on two test cases or more.
C10_Witness ==
    /\ \E p \in Graded : \E i \in 1..Len(reqs[p].runs) :
          /\ Len(reqs[p].runs[i]) = 3
          /\ reqs[p].runs[i][1].code = "counter"
          /\ reqs[p].awarded[i] = 1
    /\ rcPc = "done"
    /\ Len(rcRuns) >= 2
    /\ rcRuns[1].code = "tally"
    /\ rcRuns[2].logged = <<"1">>

(***************************************************************************)
(* Specification of one submitTest request on a test of the Coding         *)
(* question, answered with code that loops for ever, throws or returns;    *)
(* every continuation of a request that is ready to run is run             *)
(***************************************************************************)
TimeoutPrograms == {"loop", "loopOn2", "one", "throw"}

TimeoutAnswerSheets ==
    LET one == {Answer(IdToString(ObjectId(5)), Str(code)) :
                   code \in TimeoutPrograms}
    IN  {<<a>> : a \in one} \cup {<<a, b>> : a \in one, b \in one}

TimeoutInit ==
    /\ AdvIdle
    /\ BkIdle
    /\ SelIdle
    /\ RunIdle
    /\ AdmIdle
    /\ store = Bank
    /\ nextId = 11
    /\ today = 100
    /\ histories \in {<<>>, <<SeenHistory([n \in {1, 2} |-> "old"], today)>>}
    /\ pools = <<>>
    /\ testDoc = [_id |-> TheTest, questions |-> <<ObjectId(5)>>,
                  passingPercentage |-> 60, score |-> 0, status |-> "Assigned"]
    /\ submissions = <<>>
    /\ leaveStatus = "Test Assigned"
    /\ notifications = 0
    /\ \E answers \in TimeoutAnswerSheets :
       \E other \in {NoRequest, NewRequest(MissingTest, <<>>)} :
          reqs = [p \in Requests |->
                     IF p = 1 THEN NewRequest(TheTest, answers) ELSE other]

TimeoutNext == \E p \in Requests : SubmitTest(p)

TimeoutSpec ==
    /\ TimeoutInit
    /\ [][TimeoutNext]_vars
    /\ \A p \in Requests : WF_vars(SubmitTest(p))

\* The execution r was ended by the time limit of its VM.
TimedOut(r) == r.outcome = "timeout"

FailingAnswers(p) ==
    {i \in 1..Len(reqs[p].answers) :
        LET found == FindQuestion(reqs[p].questions, reqs[p].answers[i].questionId)
        IN  /\ found # <<>>
            /\ found[1].questionType = "Coding"
            /\ \E k \in 1..Len(found[1].testCases) :
                  ~CasePasses(reqs[p].answers[i].answer.v, found[1].testCases[k])}

\* The point answer i of request p earns by itself, whatever the other
\* answers of the submission do.
PointAlone(p, i) ==
    GradeAnswer(reqs[p].questions, reqs[p].answers[i]).points

\* The request p is past the save of its Submission.
SubmissionSaved(p) ==
    reqs[p].pc \in {"history", "create", "update", "leave", "notify", "done"}
    /\ reqs[p].test # <<>>

\* C12: a failed test case is only a failed case: the other answers of the
\* submission are graded as they are without it, the score is stored on the
\* Test and in the Submission, and the answer to the request carries the
\* score.
C12_FailedCaseIsNotFatal ==
    \A p \in Requests :
        (reqs[p].test # <<>> /\ FailingAnswers(p) # {})
        => /\ p \in Graded
                => /\ Len(reqs[p].awarded) = Len(reqs[p].answers)
                   /\ \A i \in 1..Len(reqs[p].answers) :
                         reqs[p].awarded[i] = PointAlone(p, i)
                   /\ \A i \in FailingAnswers(p) : reqs[p].awarded[i] = 0
                   /\ reqs[p].score = Cardinality(
                         {i \in 1..Len(reqs[p].answers) : PointAlone(p, i) = 1})
                   /\ testDoc.score = reqs[p].score
                   /\ testDoc.status = "Completed"
           /\ SubmissionSaved(p)
                => \E s \in 1..Len(submissions) :
                      /\ submissions[s].answers = reqs[p].answers
                      /\ submissions[s].score = reqs[p].score
           /\ reqs[p].pc = "done"
                => /\ reqs[p].response[1].status = 200
                   /\ reqs[p].response[1].score = reqs[p].score

\* A submission whose first answer threw in a test case and whose second
\* answer earned its point has been answered with score 1.
C12_Witness ==
    \E p \in Requests :
        /\ reqs[p].pc = "done"
        /\ reqs[p].test # <<>>
        /\ Len(reqs[p].answers) = 2
        /\ 1 \in FailingAnswers(p)
        /\ reqs[p].runs[1] # <<>>
        /\ reqs[p].runs[1][1].outcome = "error"
        /\ reqs[p].awarded = <<0, 1>>
        /\ reqs[p].response[1].status = 200
        /\ reqs[p].response[1].score = 1

\* C13: when updateStudentHistory fails, the grading is not unwound: the
\* Test keeps the computed score and the status Completed, the Submission
\* stays saved with the same score and isPassed, and the request is answered
\* with the result, not with an error.
C13_HistoryFailureKeepsGrading ==
    \A p \in Requests :
        reqs[p].historyError
        => /\ testDoc.score = reqs[p].score
           /\ testDoc.status = "Completed"
           /\ \E s \in 1..Len(submissions) :
                 /\ submissions[s].answers = reqs[p].answers
                 /\ submissions[s].score = reqs[p].score
                 /\ submissions[s].isPassed = reqs[p].isPassed
           /\ reqs[p].pc = "done"
                => /\ reqs[p].response[1].status = 200
                   /\ reqs[p].response[1].score = reqs[p].score
                   /\ reqs[p].response[1].isPassed = reqs[p].isPassed

\* A request whose history update failed has been answered with the score
\* of its one correct answer.
C13_Witness ==
    \E p \in Requests :
        /\ reqs[p].historyError
        /\ reqs[p].pc = "done"
        /\ reqs[p].score = 1
        /\ testDoc.score = 1
        /\ reqs[p].response[1].status = 200

(***************************************************************************)
(* Specification of one selectQuestionsForTest call of a learner who has   *)
(* no history yet or saw questions 1 and 2 lately, for all categories      *)
(***************************************************************************)
ShortSelectInit ==
    /\ SelectInit
    /\ histories \in {<<>>, <<SeenHistory([n \in {1, 2} |-> "recent"], today)>>}
    /\ selConfig.categories = <<>>
    /\ selConfig.avoidRecentQuestions
    /\ selConfig.recentQuestionDays = 30

ShortSelectNext == SelectNext

ShortSelectSpec == ShortSelectInit /\ [][ShortSelectNext]_vars

\* C14: when the Store supplies fewer questions than totalQuestions and
\* generateIfNeeded is false, the call ends without an error, the generator
\* is never called and the list returned holds exactly the questions the
\* Store supplied.
C14_ShortListWithoutGenerator ==
    (~selConfig.generateIfNeeded /\ selPc \in {"shuffle", "done"}
        /\ Len(selSelected) < selConfig.totalQuestions)
    => /\ selGenCalls = <<>>
       /\ selGenerated = <<>>
       /\ Range(selSelected) \subseteq store
       /\ selPc = "done"
            => /\ Len(selResult) = Len(selSelected)
               /\ \A q \in store :
                     Cardinality({i \in 1..Len(selResult) : selResult[i] = q})
                       = Cardinality({i \in 1..Len(selSelected) :
                                         selSelected[i] = q})

\* A call for two questions without the generator ended with the one
\* question the Store had.
C14_Witness ==
    /\ selPc = "done"
    /\ ~selConfig.generateIfNeeded
    /\ selConfig.totalQuestions = 2
    /\ Len(selSelected) = 1
    /\ Len(selResult) = 1
    /\ selResult[1] \in store

(***************************************************************************)
(* The adviser: getAdaptiveDifficulty and getWeakCategories                *)
(***************************************************************************)
MaxCategoryAttempts == 10

\* correct / attempted >= tenths / 10 on doubles.  The quotient of two small
\* integers is rounded to the nearest double, which is the double of the
\* literal when the exact quotient is the literal's value and lies on the
\* exact quotient's side of it otherwise.
AccuracyAtLeast(correct, attempted, tenths) ==
    10 * correct >= tenths * attempted

\* The same comparison with > in place of >=.
getAdaptiveDifficultyStrict(history) ==
    IF history.totalQuestionsAttempted < 10
      THEN [easy |-> 30, medium |-> 50, hard |-> 20]
    ELSE IF 10 * history.correctAnswers > 8 * history.totalQuestionsAttempted
      THEN [easy |-> 10, medium |-> 40, hard |-> 50]
    ELSE IF 10 * history.correctAnswers > 6 * history.totalQuestionsAttempted
      THEN [easy |-> 25, medium |-> 50, hard |-> 25]
    ELSE [easy |-> 50, medium |-> 40, hard |-> 10]

\* getAdaptiveDifficulty, from the history getStudentHistory returned.
getAdaptiveDifficulty(history) ==
    IF history.totalQuestionsAttempted < 10
      THEN [easy |-> 30, medium |-> 50, hard |-> 20]
    ELSE IF AccuracyAtLeast(history.correctAnswers,
                            history.totalQuestionsAttempted, 8)
      THEN [easy |-> 10, medium |-> 40, hard |-> 50]
    ELSE IF AccuracyAtLeast(history.correctAnswers,
                            history.totalQuestionsAttempted, 6)
      THEN [easy |-> 25, medium |-> 50, hard |-> 25]
    ELSE [easy |-> 50, medium |-> 40, hard |-> 10]

\* The loop with accuracy <= 0.5 in place of accuracy < 0.5.
getWeakCategoriesUpToHalf(history) ==
    {category \in DOMAIN history.categoryPerformance :
        LET perf == history.categoryPerformance[category]
        IN  perf.attempted >= 3 /\ 2 * perf.correct <= perf.attempted}

\* getWeakCategories, from the history getStudentHistory returned: the
\* categories pushed, as a set.  perf.correct / perf.attempted < 0.5 is
\* exact on doubles for a half.
getWeakCategories(history) ==
    {category \in DOMAIN history.categoryPerformance :
        LET perf == history.categoryPerformance[category]
        IN  perf.attempted >= 3 /\ ~AccuracyAtLeast(perf.correct, perf.attempted, 5)}

\* getAdaptiveDifficulty: the learner's record is found.
AdaptiveDifficultyFound ==
    /\ adv.pc = "start"
    /\ adv.op = "difficulty"
    /\ FindHistory(histories, Student) # <<>>
    /\ adv' = [adv EXCEPT
                 !.pc = "done",
                 !.difficulty = getAdaptiveDifficulty(
                     histories[FindHistory(histories, Student)[1]])]
    /\ UNCHANGED <<bkVars, dbVars, selVars, gradeVars, runVars, admVars>>

\* getAdaptiveDifficulty: no record is found and a new one is saved.
AdaptiveDifficultyNew ==
    /\ adv.pc = "start"
    /\ adv.op = "difficulty"
    /\ FindHistory(histories, Student) = <<>>
    /\ histories' = Append(histories, NewHistory(Student))
    /\ adv' = [adv EXCEPT
                 !.pc = "done",
                 !.difficulty = getAdaptiveDifficulty(NewHistory(Student))]
    /\ UNCHANGED <<bkVars, store, nextId, pools, today, selVars, gradeVars,
                   runVars, admVars>>

\* getWeakCategories: the learner's record is found.
WeakCategoriesFound ==
    /\ adv.pc = "start"
    /\ adv.op = "weak"
    /\ FindHistory(histories, Student) # <<>>
    /\ adv' = [adv EXCEPT
                 !.pc = "done",
                 !.weak = getWeakCategories(
                     histories[FindHistory(histories, Student)[1]])]
    /\ UNCHANGED <<bkVars, dbVars, selVars, gradeVars, runVars, admVars>>

\* getWeakCategories: no record is found and a new one is saved.
WeakCategoriesNew ==
    /\ adv.pc = "start"
    /\ adv.op = "weak"
    /\ FindHistory(histories, Student) = <<>>
    /\ histories' = Append(histories, NewHistory(Student))
    /\ adv' = [adv EXCEPT !.pc = "done",
                          !.weak = getWeakCategories(NewHistory(Student))]
    /\ UNCHANGED <<bkVars, store, nextId, pools, today, selVars, gradeVars,
                   runVars, admVars>>

\* The record of a learner who was tested on question 1 (React, easy) react
\* times, right reactRight times, and on question 2 (Python, easy) python
\* times, right pythonRight times.
CareerHistory(react, reactRight, python, pythonRight, now) ==
    [student |-> Student,
     seenQuestions |->
        [i \in 1..(react + python) |->
            IF i <= react
              THEN SeenEntry(ObjectId(1), EarlierTest, now - SeenLongAgo,
                             i <= reactRight)
              ELSE SeenEntry(ObjectId(2), EarlierTest, now - SeenLongAgo,
                             i - react <= pythonRight)],
     totalQuestionsAttempted |-> react + python,
     correctAnswers |-> reactRight + pythonRight,
     categoryPerformance |->
        [c \in {k \in {"React", "Python"} :
                   (IF k = "React" THEN react ELSE python) > 0} |->
            IF c = "React"
              THEN [attempted |-> react, correct |-> reactRight]
              ELSE [attempted |-> python, correct |-> pythonRight]],
     difficultyPerformance |->
        [d \in {k \in {"easy"} : react + python > 0} |->
            [attempted |-> react + python,
             correct |-> reactRight + pythonRight]]]

\* The careers of the learners advised: tests taken, and at most as many
\* right answers as attempts in each category.
Careers ==
    {c \in (0..MaxCategoryAttempts) \X (0..MaxCategoryAttempts)
            \X (0..MaxCategoryAttempts) \X (0..MaxCategoryAttempts) :
        c[2] <= c[1] /\ c[4] <= c[3] /\ c[1] + c[3] > 0}

AdviserInit ==
    /\ BkIdle
    /\ SelIdle
    /\ GradeIdle
    /\ RunIdle
    /\ AdmIdle
    /\ store = Bank
    /\ nextId = 11
    /\ today = 100
    /\ pools = <<>>
    /\ histories \in
          {<<>>} \cup
          {<<CareerHistory(c[1], c[2], c[3], c[4], today)>> : c \in Careers}
    /\ adv \in {[NoAdvice EXCEPT !.pc = "start", !.op = op] :
                   op \in {"difficulty", "weak"}}

AdviserNext ==
    \/ AdaptiveDifficultyFound
    \/ AdaptiveDifficultyNew
    \/ WeakCategoriesFound
    \/ WeakCategoriesNew

AdviserSpec == AdviserInit /\ [][AdviserNext]_vars

\* The learner's record once the call has ended.
AdvisedHistory == histories[FindHistory(histories, Student)[1]]

\* C15: getAdaptiveDifficulty returns {30,50,20} below 10 attempts, and
\* otherwise {10,40,50} for an accuracy of 0.8 or more, {25,50,25} for one of
\* 0.6 or more and {50,40,10} below 0.6; the percentages sum to 100.
C15_AdaptiveDifficultyPolicy ==
    (adv.pc = "done" /\ adv.op = "difficulty")
    => LET attempted == AdvisedHistory.totalQuestionsAttempted
           correct == AdvisedHistory.correctAnswers
           d == adv.difficulty
       IN  /\ attempted < 10
                => d = [easy |-> 30, medium |-> 50, hard |-> 20]
           /\ (attempted >= 10 /\ 5 * correct >= 4 * attempted)
                => d = [easy |-> 10, medium |-> 40, hard |-> 50]
           /\ (attempted >= 10 /\ 5 * correct < 4 * attempted
                 /\ 5 * correct >= 3 * attempted)
                => d = [easy |-> 25, medium |-> 50, hard |-> 25]
           /\ (attempted >= 10 /\ 5 * correct < 3 * attempted)
                => d = [easy |-> 50, medium |-> 40, hard |-> 10]
           /\ d.easy + d.medium + d.hard = 100

\* A learner with 17 right answers of 20 was advised {10,40,50}.
C15_Witness ==
    /\ adv.pc = "done"
    /\ adv.op = "difficulty"
    /\ Len(histories) = 1
    /\ histories[1].totalQuestionsAttempted = 20
    /\ histories[1].correctAnswers = 17
    /\ adv.difficulty = [easy |-> 10, medium |-> 40, hard |-> 50]

\* C16: getWeakCategories returns exactly the categories of the learner's
\* categoryPerformance with 3 attempts or more and less than half of them
\* right.
C16_WeakCategories ==
    (adv.pc = "done" /\ adv.op = "weak")
    => LET perf == AdvisedHistory.categoryPerformance
       IN  \A c \in {"React", "Python", "DSA"} :
              c \in adv.weak
                <=> /\ c \in DOMAIN perf
                    /\ perf[c].attempted >= 3
                    /\ 2 * perf[c].correct < perf[c].attempted

\* React, with 1 of 3 right, was returned; Python, with 2 of 4 right, was not.
C16_Witness ==
    /\ adv.pc = "done"
    /\ adv.op = "weak"
    /\ Len(histories) = 1
    /\ histories[1].categoryPerformance =
          [c \in {"React", "Python"} |->
              IF c = "React" THEN [attempted |-> 3, correct |-> 1]
                             ELSE [attempted |-> 4, correct |-> 2]]
    /\ adv.weak = {"React"}

(***************************************************************************)
(* The history update of one grading, and grading twice                    *)
(***************************************************************************)
\* The request p ends a successful updateStudentHistory in this step.
HistoryUpdatedBy(p) ==
    /\ reqs[p].pc = "update"
    /\ reqs'[p].pc = "leave"
    /\ ~reqs'[p].historyError

\* C17: a successful updateStudentHistory appends exactly one seenQuestions
\* entry for each question of the graded Test, in their order, and raises
\* totalQuestionsAttempted by the number of questions.
C17_OneHistoryEntryPerQuestion ==
    [][\A p \in Requests :
          HistoryUpdatedBy(p)
          => LET before == histories[reqs[p].historyAt]
                 after == histories'[reqs[p].historyAt]
                 questions == reqs[p].questions
                 had == Len(before.seenQuestions)
             IN  /\ Len(after.seenQuestions) = had + Len(questions)
                 /\ SubSeq(after.seenQuestions, 1, had) = before.seenQuestions
                 /\ \A i \in 1..Len(questions) :
                       /\ after.seenQuestions[had + i].question = questions[i]._id
                       /\ after.seenQuestions[had + i].test = reqs[p].test[1]._id
                 /\ after.totalQuestionsAttempted
                       = before.totalQuestionsAttempted + Len(questions)]_vars

\* The history of a request on a test of two questions, one of them not
\* answered, was updated: two entries more, two attempts more.
C17_Witness ==
    \E p \in Requests :
        /\ reqs[p].pc \in {"leave", "notify", "done"}
        /\ reqs[p].test # <<>>
        /\ ~reqs[p].historyError
        /\ Len(reqs[p].questions) = 2
        /\ Len(reqs[p].answers) = 1
        /\ Len(histories) = 1
        /\ Len(histories[1].seenQuestions)
              = Len(reqs[p].history[1].seenQuestions) + 2
        /\ histories[1].totalQuestionsAttempted
              = reqs[p].history[1].totalQuestionsAttempted + 2

C19_ConfigErrorRejectedBeforeStore ==
    selConfig.totalQuestions = 0 => selPc = "start"

(***************************************************************************)
(* Failures of the executor while submitTest grades                        *)
(***************************************************************************)
\* vm.run when the executor fails under it: the error thrown is not one of
\* the submitted code.
SandboxCrash(sandbox) ==
    [outcome |-> "crash", result |-> Undefined, logged |-> <<>>,
     sandbox |-> sandbox]

\* The loop of submitTest over question.testCases when vm.run fails for
\* every call: the catch clears passedAllCases at the first test case.
GradeCodingSandboxDown(code, testCases) ==
    IF testCases = <<>> THEN [passedAllCases |-> TRUE, runs |-> <<>>]
    ELSE [passedAllCases |-> FALSE,
          runs |-> <<RunRecord("submitTest", code, testCases[1].input,
                               EmptySandbox, SandboxCrash(EmptySandbox))>>]

\* The body of the loop of submitTest for one submitted answer, with the
\* failing executor.
GradeAnswerSandboxDown(questions, submittedAnswer) ==
    LET found == FindQuestion(questions, submittedAnswer.questionId)
    IN  IF found # <<>> /\ found[1].questionType = "Coding"
          THEN LET graded == GradeCodingSandboxDown(submittedAnswer.answer.v,
                                                    found[1].testCases)
               IN  [points |-> IF graded.passedAllCases THEN 1 ELSE 0,
                    runs |-> graded.runs]
          ELSE GradeAnswer(questions, submittedAnswer)

RECURSIVE GradeAnswersSandboxDown(_, _, _)
GradeAnswersSandboxDown(questions, answers, i) ==
    IF i > Len(answers) THEN [score |-> 0, awarded |-> <<>>, runs |-> <<>>]
    ELSE LET one == GradeAnswerSandboxDown(questions, answers[i])
             rest == GradeAnswersSandboxDown(questions, answers, i + 1)
         IN  [score |-> (IF one.points = 1 THEN 1 ELSE 0) + rest.score,
              awarded |-> <<one.points>> \o rest.awarded,
              runs |-> <<one.runs>> \o rest.runs]

\* The grading reaches the Coding branch with a test case to run.
UsesSandbox(p) ==
    LET graded == GradeAnswersSandboxDown(reqs[p].questions, reqs[p].answers, 1)
    IN  \E i \in 1..Len(graded.runs) : graded.runs[i] # <<>>

\* The grading step while the executor fails in vm.run: the error is caught
\* by the catch around vm.run and the score and the status are saved.
SubmitGradeSandboxCrash(p) ==
    /\ reqs[p].pc = "grade"
    /\ UsesSandbox(p)
    /\ LET graded == GradeAnswersSandboxDown(reqs[p].questions,
                                             reqs[p].answers, 1)
           totalQuestions == Len(reqs[p].questions)
           passingScore == PassingScore(totalQuestions)
       IN  /\ testDoc' = SavedTest(testDoc, reqs[p].test[1], graded.score)
           /\ reqs' = [reqs EXCEPT
                         ![p].pc = "submission",
                         ![p].score = graded.score,
                         ![p].awarded = graded.awarded,
                         ![p].runs = graded.runs,
                         ![p].totalQuestions = totalQuestions,
                         ![p].isPassed = (graded.score >= passingScore)]
    /\ UNCHANGED <<advVars, bkVars, dbVars, selVars, runVars, admVars,
                   submissions, leaveStatus, notifications>>

\* The grading step while no VM can be made: new VM is outside the try, its
\* error leaves the handler, which answers 500 and saves nothing.
SubmitGradeSandboxUnavailable(p) ==
    /\ reqs[p].pc = "grade"
    /\ UsesSandbox(p)
    /\ reqs' = [reqs EXCEPT ![p].pc = "done",
                            ![p].response = <<[status |-> 500]>>]
    /\ UNCHANGED <<advVars, bkVars, dbVars, selVars, runVars, admVars, testDoc,
                   submissions, leaveStatus, notifications>>

CrashPrograms == {"one", "throw", "loopOn2"}

CrashAnswerSheets ==
    LET one == {Answer(IdToString(ObjectId(5)), Str(code)) :
                   code \in CrashPrograms}
    IN  {<<a>> : a \in one} \cup {<<a, b>> : a \in one, b \in one}

\* Two requests for a test of the Coding question; the second may name a
\* test that does not exist.
CrashInit ==
    /\ AdvIdle
    /\ BkIdle
    /\ SelIdle
    /\ RunIdle
    /\ AdmIdle
    /\ store = Bank
    /\ nextId = 11
    /\ today = 100
    /\ histories \in {<<>>, <<SeenHistory([n \in {1, 2} |-> "old"], today)>>}
    /\ pools = <<>>
    /\ testDoc = [_id |-> TheTest, questions |-> <<ObjectId(5)>>,
                  passingPercentage |-> 60, score |-> 0, status |-> "Assigned"]
    /\ submissions = <<>>
    /\ leaveStatus = "Test Assigned"
    /\ notifications = 0
    /\ \E first \in CrashAnswerSheets : \E second \in CrashAnswerSheets :
       \E testId \in {TheTest, MissingTest} :
          /\ Len(first) = Len(second)
          /\ (testId = MissingTest => second = first)
          /\ reqs = [p \in Requests |->
                        IF p = 1 THEN NewRequest(TheTest, first)
                                 ELSE NewRequest(testId, second)]

CrashNext ==
    \E p \in Requests :
        \/ SubmitTest(p)
        \/ SubmitGradeSandboxCrash(p)
        \/ SubmitGradeSandboxUnavailable(p)

CrashSpec == CrashInit /\ [][CrashNext]_vars

\* The request p has been answered.
Answered(p) == reqs[p].pc = "done" /\ reqs[p].response # <<>>

\* The executor failed in an execution of the grading of request p, or no
\* execution could be made.
SandboxFailed(p) ==
    \/ \E i \in 1..Len(reqs[p].runs) : \E k \in 1..Len(reqs[p].runs[i]) :
          reqs[p].runs[i][k].outcome = "crash"
    \/ reqs[p].response = <<[status |-> 500]>>

\* An answer of request p failed a test case by what its code did: a
\* timeout, a thrown error or another output.
LogicallyFailed(p) ==
    /\ ~SandboxFailed(p)
    /\ \E i \in 1..Len(reqs[p].runs) : \E k \in 1..Len(reqs[p].runs[i]) :
          LET r == reqs[p].runs[i][k]
          IN  \/ r.outcome \in {"timeout", "error"}
              \/ /\ r.outcome = "ok"
                 /\ StringOf(r.result)
                      # StringOf(BankQuestion(5).testCases[k].output)

\* What submitTest records of the grading of request p: the points per
\* answer, the score, isPassed and the response.
RecordedOutcome(p) ==
    [awarded |-> reqs[p].awarded, score |-> reqs[p].score,
     isPassed |-> reqs[p].isPassed, response |-> reqs[p].response]

\* C20: a failure of the executor while grading is recorded differently from
\* a logical failure of the submitted code: an answered request whose
\* executor failed and an answered request whose code failed a test case
\* do not have the same recorded outcome.
C20_SandboxFailureIsDistinguishable ==
    \A p \in Requests : \A q \in Requests :
        (Answered(p) /\ Answered(q) /\ SandboxFailed(p) /\ LogicallyFailed(q))
        => RecordedOutcome(p) # RecordedOutcome(q)

(***************************************************************************)
(* One history record per learner                                          *)
(***************************************************************************)
\* The StudentQuestionHistory documents of the learner.
HistoriesOf(student) ==
    {h \in 1..Len(histories) : histories[h].student = student}

\* C21: after any interleaving of getStudentHistory calls for one learner
\* there is at most one StudentQuestionHistory record of that learner, and
\* every request that holds a record holds that one.
C21_OneHistoryPerLearner ==
    /\ Cardinality(HistoriesOf(Student)) <= 1
    /\ \A p \in Requests : \A q \in Requests :
          (reqs[p].historyAt # 0 /\ reqs[q].historyAt # 0)
          => reqs[p].historyAt = reqs[q].historyAt

(***************************************************************************)
(* Edge cases of the configuration: no questions asked for, and axes whose *)
(* percentages are all zero                                                *)
(***************************************************************************)
ZeroDifficulty == [easy |-> 0, medium |-> 0, hard |-> 0]
ZeroTypes == [MCQ |-> 0, Coding |-> 0, TrueFalse |-> 0]

EdgeConfigs ==
    [poolId : {0},
     totalQuestions : 0..MaxSelTotal,
     difficultyDistribution :
        {ZeroDifficulty, [easy |-> 30, medium |-> 50, hard |-> 20],
         [easy |-> 100, medium |-> 0, hard |-> 0]},
     categories : {<<>>},
     questionTypes :
        {ZeroTypes, [MCQ |-> 70, Coding |-> 20, TrueFalse |-> 10],
         [MCQ |-> 100, Coding |-> 0, TrueFalse |-> 0]},
     avoidRecentQuestions : {TRUE},
     recentQuestionDays : {30},
     generateIfNeeded : BOOLEAN]

EdgeSelectInit ==
    /\ AdvIdle
    /\ BkIdle
    /\ GradeIdle
    /\ RunIdle
    /\ AdmIdle
    /\ today = 100
    /\ store \in SelStoreChoices
    /\ nextId = 11
    /\ histories \in {<<>>, <<SeenHistory([n \in {1, 2} |-> "recent"], today)>>}
    /\ pools = <<>>
    /\ selPc = "start"
    /\ selConfig \in EdgeConfigs
    /\ selHistory = <<>>
    /\ selExclude = <<>>
    /\ selPool = <<>>
    /\ selBreakdown = <<>>
    /\ selCell = 0
    /\ selSelected = <<>>
    /\ selGenerated = <<>>
    /\ selGenCalls = <<>>
    /\ selResult = <<>>

EdgeSelectNext == SelectNext

EdgeSelectSpec == EdgeSelectInit /\ [][EdgeSelectNext]_vars

\* C22: with totalQuestions = 0 selectQuestionsForTest asks for no cell,
\* draws nothing from the Store, makes no request to the generator and
\* returns the empty list, whatever the two distributions are.
C22_ZeroTotalSelectsNothing ==
    selConfig.totalQuestions = 0
    => /\ selBreakdown = <<>>
       /\ selSelected = <<>>
       /\ selGenCalls = <<>>
       /\ selGenerated = <<>>
       /\ selResult = <<>>
       /\ selPc # "generate"
       /\ store \in SelStoreChoices

\* A call with totalQuestions = 0, allowed to generate, on the full bank
\* and with a distribution that is not all zero has returned.
C22_Witness ==
    /\ selPc = "done"
    /\ selConfig.totalQuestions = 0
    /\ selConfig.generateIfNeeded
    /\ selConfig.difficultyDistribution.medium = 50
    /\ selConfig.questionTypes = ZeroTypes
    /\ store = Bank
    /\ selResult = <<>>

\* C23: when all percentages of the difficulty axis, or all of the type
\* axis, are zero, calculateQuestionBreakdown returns no cell with a
\* positive count.
C23_ZeroAxisRequestsNothing ==
    (bkPc = "done" /\ (bkDifficulty = ZeroDifficulty \/ bkTypes = ZeroTypes))
    => \A i \in 1..Len(bkResult) : bkResult[i].count <= 0

(***************************************************************************)
(* The selection: no question twice, the requests to the generator, the    *)
(* pool                                                                    *)
(***************************************************************************)
\* The questions of selectedQuestions that were drawn from the Store.
DrawnQuestions ==
    SelectSeq(selSelected, LAMBDA q : q \notin Range(selGenerated))

\* C24: the list selectQuestionsForTest returns, and the list it builds,
\* hold no question twice: no question is drawn for two cells, and no
\* generated question is one that was drawn.
C24_NoQuestionTwice ==
    /\ \A i \in 1..Len(selSelected) : \A j \in 1..Len(selSelected) :
          i # j => selSelected[i]._id # selSelected[j]._id
    /\ \A i \in 1..Len(selResult) : \A j \in 1..Len(selResult) :
          i # j => selResult[i]._id # selResult[j]._id
    /\ \A g \in 1..Len(selGenerated) : \A d \in 1..Len(DrawnQuestions) :
          selGenerated[g]._id # DrawnQuestions[d]._id

\* Two questions drawn for two cells were returned, and in another call a
\* drawn and a generated question.
C24_Witness ==
    /\ selPc = "done"
    /\ Len(selResult) = 2
    /\ \/ Len(selBreakdown) = 2 /\ selGenerated = <<>>
       \/ Len(DrawnQuestions) = 1 /\ Len(selGenerated) >= 1

\* The number of drawn questions of the cell, counted on the list.
DrawnOfCell(cell) ==
    Cardinality({i \in 1..Len(DrawnQuestions) :
                    /\ DrawnQuestions[i].difficulty = cell.difficulty
                    /\ DrawnQuestions[i].questionType = cell.type})

\* The cells before cell number upto that lack questions.
CellsInNeed(upto) ==
    SelectSeq(SubSeq(selBreakdown, 1, upto),
              LAMBDA cell : cell.count - DrawnOfCell(cell) > 0)

\* C25: generateAdditionalQuestions asks the generator, for each cell that
\* lacks questions, for exactly cell.count minus the questions selected for
\* the cell, and makes no request for a full cell; every generated question
\* is in the Store; and the questions it adds are at most totalQuestions
\* minus the number selected before.
C25_GeneratesTheShortfall ==
    /\ selPc \in {"generate", "shuffle", "done"}
       => LET visited == IF selPc = "generate" THEN selCell - 1
                         ELSE IF Len(DrawnQuestions) < selConfig.totalQuestions
                                  /\ selConfig.generateIfNeeded
                                THEN Len(selBreakdown)
                         ELSE 0
              inNeed == CellsInNeed(visited)
          IN  /\ Len(selGenCalls) = Len(inNeed)
              /\ \A k \in 1..Len(inNeed) :
                    /\ selGenCalls[k].difficulty = inNeed[k].difficulty
                    /\ selGenCalls[k].questionType = inNeed[k].type
                    /\ selGenCalls[k].count
                          = inNeed[k].count - DrawnOfCell(inNeed[k])
    /\ Range(selGenerated) \subseteq store
    /\ selPc \in {"shuffle", "done"}
       => (Len(selSelected) > Len(DrawnQuestions)
              => Len(selSelected) <= selConfig.totalQuestions)

\* One question of two was drawn, the generator was asked for the one that
\* lacked, answered with two, and one of them was returned.
C25_Witness ==
    /\ selPc = "done"
    /\ Len(DrawnQuestions) = 1
    /\ Len(selGenCalls) = 1
    /\ selGenCalls[1].count = 1
    /\ Len(selGenerated) = 2
    /\ Len(selResult) = 2

\* The pools the call is to bind: the one of config.poolId, or else the
\* ones flagged default and active.
PoolsToBind ==
    IF selConfig.poolId # 0
      THEN {pl \in Range(pools) : pl._id = ObjectId(selConfig.poolId)}
      ELSE {pl \in Range(pools) : pl.isDefault /\ pl.isActive}

\* C26: the call binds the pool of an explicit poolId, else the default
\* active pool, else none; every question drawn from the Store is of the
\* bound pool when that pool has questions; and the pools stay as they are.
C26_PoolIsBoundAndKept ==
    /\ [](selPc \in {"select", "generate", "shuffle", "done"}
          => /\ (selPool = <<>> <=> PoolsToBind = {})
             /\ (selPool # <<>> => selPool[1] \in PoolsToBind)
             /\ (selPool # <<>> /\ selPool[1].questions # {})
                   => \A i \in 1..Len(DrawnQuestions) :
                         DrawnQuestions[i]._id \in selPool[1].questions)
    /\ [][pools' = pools]_vars

\* A call without poolId bound the default pool of questions 1 and 3 and
\* returned question 1 while the Store held question 2 of the same cell.
C26_Witness ==
    /\ selPc = "done"
    /\ selConfig.poolId = 0
    /\ selPool # <<>>
    /\ selPool[1].isDefault
    /\ BankQuestion(2) \in store
    /\ Len(DrawnQuestions) >= 1
    /\ BankQuestion(2) \notin Range(selResult)

(***************************************************************************)
(* Specification of shuffleArray, called on its own                        *)
(***************************************************************************)
\* The arrays it is called on: up to MaxShuffle questions of the bank, a
\* question possibly more than once.
ShuffleInputs ==
    UNION {[1..n -> {BankQuestion(1), BankQuestion(2), BankQuestion(3)}] :
              n \in 0..MaxShuffle}

ShuffleInit ==
    /\ AdvIdle
    /\ BkIdle
    /\ DbEmpty
    /\ GradeIdle
    /\ RunIdle
    /\ AdmIdle
    /\ selPc = "shuffle"
    /\ selConfig = <<>>
    /\ selHistory = <<>>
    /\ selExclude = <<>>
    /\ selPool = <<>>
    /\ selBreakdown = <<>>
    /\ selCell = 0
    /\ selSelected \in ShuffleInputs
    /\ selGenerated = <<>>
    /\ selGenCalls = <<>>
    /\ selResult = <<>>

ShuffleNext == SelShuffle

ShuffleSpec == ShuffleInit /\ [][ShuffleNext]_vars

\* How often x is an element of the array.
Occurrences(array, x) == Cardinality({i \in 1..Len(array) : array[i] = x})

\* C27: shuffleArray returns a permutation of its input: the same length
\* and every element as often as in the input; and the input array stays as
\* it was.
C27_ShuffleIsPermutation ==
    /\ [](selPc = "done"
          => /\ Len(selResult) = Len(selSelected)
             /\ \A x \in Range(selSelected) \cup Range(selResult) :
                   Occurrences(selResult, x) = Occurrences(selSelected, x))
    /\ [][selSelected' = selSelected]_vars

\* An array of four questions, one of them twice, was returned in another
\* order.
C27_Witness ==
    /\ selPc = "done"
    /\ Len(selSelected) = 4
    /\ Cardinality(Range(selSelected)) = 3
    /\ selResult # selSelected
    /\ selResult[1] = selSelected[3]

(***************************************************************************)
(* The score and the history against each other                            *)
(***************************************************************************)
\* C28: whatever answers are sent, the score of a graded request, the score
\* stored on the Test and the score of every Submission are between 0 and
\* the number of questions of the Test.
C28_ScoreWithinTotal ==
    /\ \A p \in Graded :
          /\ 0 <= reqs[p].score
          /\ reqs[p].score <= reqs[p].totalQuestions
    /\ \A i \in 1..Len(submissions) :
          /\ 0 <= submissions[i].score
          /\ submissions[i].score <= submissions[i].totalQuestions

\* The request p has updated the learner's history.
HistoryUpdated(p) ==
    /\ reqs[p].pc \in {"leave", "notify", "done"}
    /\ reqs[p].test # <<>>
    /\ reqs[p].history # <<>>
    /\ ~reqs[p].historyError

\* submitTest added a point for an answer of request p to the question q.
PointAwarded(p, q) ==
    \E a \in 1..Len(reqs[p].answers) :
        /\ reqs[p].answers[a].questionId = IdToString(q._id)
        /\ reqs[p].awarded[a] = 1

\* C29: for every question of a graded Test, the answeredCorrectly flag
\* recorded by updateStudentHistory is true exactly when submitTest awarded
\* a point for that question in the same submission.
C29_HistoryFlagIsThePoint ==
    \A p \in Requests :
        HistoryUpdated(p)
        => LET had == Len(reqs[p].history[1].seenQuestions)
               seen == histories[reqs[p].historyAt].seenQuestions
           IN  \A i \in 1..Len(reqs[p].questions) :
                  seen[had + i].answeredCorrectly
                     <=> PointAwarded(p, reqs[p].questions[i])

\* C30: in every history record correctAnswers is the number of
\* seenQuestions entries with answeredCorrectly true, and so at most
\* totalQuestionsAttempted.
C30_CorrectAnswersCountsTheFlags ==
    \A h \in 1..Len(histories) :
        /\ histories[h].correctAnswers
              = Cardinality({e \in 1..Len(histories[h].seenQuestions) :
                                histories[h].seenQuestions[e].answeredCorrectly})
        /\ histories[h].correctAnswers <= histories[h].totalQuestionsAttempted

====
